---- MODULE Spec2Model ----
(***************************************************************************)
(* Model of the moltrade relayer event pipeline:                           *)
(*   storage/rocksdb_store.rs   persistent store (evt:, fwd:, succ: keys)   *)
(*   storage/bloom_filter.rs    bloom layer                                 *)
(*   storage/memory_cache.rs    LRU layer                                   *)
(*   core/dedupe_engine.rs      warm_from_db, is_duplicate                  *)
(*   core/event_router.rs       process_stream, flush_batch, flush_all      *)
(*   core/downstream.rs         forward_events                              *)
(*   core/subscription.rs       subscriptions, fanout_for_event             *)
(*   core/relay_pool.rs         connect_and_subscribe, subscribe_all        *)
(*   api/websocket.rs           handle_socket                               *)
(*   main.rs                    process start, tasks spawned, shutdown      *)
(***************************************************************************)
EXTENDS Integers, Sequences, FiniteSets, TLC

(* ------------------------------ bounds --------------------------------- *)
\* number of distinct well-formed event ids
MaxIds == 3

\* largest wall-clock reading (ms) taken by mark_forward_success
MaxClock == 1

\* largest reading of the router's monotonic clock
MaxTime == 2

\* events taken from the ingest stream (calls of is_duplicate), over all runs
MaxIngest == 3

\* process lifetimes over the same store
MaxRuns == 2

(* ------------------------------ helpers -------------------------------- *)
Range(s) == {s[i] : i \in 1..Len(s)}

Min(a, b) == IF a < b THEN a ELSE b

Max(a, b) == IF a > b THEN a ELSE b

Take(s, n) == SubSeq(s, 1, Min(n, Len(s)))

Drop(s, n) == SubSeq(s, Min(n, Len(s)) + 1, Len(s))

Remove(s, x) == SelectSeq(s, LAMBDA y : y # x)

(* ----------------------------- the events ------------------------------ *)
\* hex ids that decode as a 32-byte event id (EventId::from_hex is Ok)
EventIds == 1..MaxIds

\* a success-index id that does not decode (EventId::from_hex is Err)
BadId == 0

Decodes(id) == id \in EventIds

\* a kind of the default allowlist, and a kind outside of it
DefaultKind == 30931

OtherKind == DefaultKind - 1

\* the id is the hash of the event: it determines kind and created_at
KindOf(id) == IF id = MaxIds THEN OtherKind ELSE DefaultKind

CreatedAt(id) == 1000 + ((id * 2) % 3)

(* --------------------------- configuration ----------------------------- *)
\* Option<Vec<u16>> of the router: None, or Some(list)
NoKinds == [some |-> FALSE, kinds |-> {}]

SomeKinds(k) == [some |-> TRUE, kinds |-> k]

\* main: the configured list, filtered: an empty list becomes None
AllowedKinds(list) == IF list = {} THEN NoKinds ELSE SomeKinds(list)

\* output.max_latency_ms, in ticks of the modelled clock
max_latency == 1

\* the configurations the runs are started with
Configs ==
  { [hotset_size |-> 2, lru_size |-> 0, batch_size |-> 2,
     allowed_kinds |-> AllowedKinds({}), tcp |-> 1, rest |-> 1,
     fanout |-> FALSE, websocket_enabled |-> FALSE,
     max_connections |-> 2],
    [hotset_size |-> 1, lru_size |-> 2, batch_size |-> 3,
     allowed_kinds |-> AllowedKinds({DefaultKind}), tcp |-> 0, rest |-> 1,
     fanout |-> FALSE, websocket_enabled |-> FALSE,
     max_connections |-> 2] }

(* ------------------------------- state --------------------------------- *)
VARIABLES
  evt,            \* persistent store: ids with an evt:{id} key
  fwd,            \* persistent store: ids with a fwd:{id} key
  succ,           \* persistent store: <<ts, id>> for each succ:{ts}:{id} key
  bloom,          \* bloom filter: the set of bit positions that are set
  lru_cache,      \* LRU: sequence of ids, most recently put first
  hot_set,        \* DashSet of hex ids
  cfg,            \* AppConfig of the process
  pending,        \* router: pending_events (sequence of ids)
  pc,             \* router: "run" while process_stream loops, "done" after it returned
  now,            \* monotonic clock of the process
  last_flush,     \* router: last_flush
  sleep_start,    \* router: creation time of the current iteration's sleep
  downstream,     \* events sent on the downstream channel in this run, in order
  fwd_pos,        \* number of events the forwarder has taken from the channel
  run,            \* number of the current process lifetime
  ingested,       \* events taken from the ingest stream so far
  seen,           \* ids passed to is_duplicate in this run
  warmed,         \* ids loaded by warm_from_db in this run
  write_failed,   \* a store write has failed in this run
  pending_since,  \* time of the push that made the buffer non-empty
  last_call,      \* the is_duplicate call made by the step just taken
  last_fwd,       \* the event the forwarder handled in the step just taken
  last_batch,     \* the batch emitted by the step just taken
  ingest_open,    \* a sender of the ingest channel is still alive
  rx_open,        \* per output channel: a receiver is still alive
  fanout,         \* messages sent on the fanout channel in this run, in order
  fanout_calls,   \* the calls of fanout_for_event made in this run, in order
  failed_ids,     \* ids whose store write failed in is_duplicate in this run
  marks,          \* the successful mark_forward_success calls, in order
  last_op,        \* the receive, warm-up or store call made by the step just taken
  bots,           \* Postgres: rows of the bots table, in insertion order
  subscriptions,  \* Postgres: rows of the subscriptions table, in insertion order
  platform_state, \* Postgres: the pubkey of the row id = 'platform', if any
  broadcasts,     \* the rotation announcements handed to the nostr client, in order
  last_sub,       \* the SubscriptionService call made by the step just taken:
                  \* up = the database answered, ok = the call returned Ok
  fw_pc,          \* forwarder task: "none" (not spawned), "run", or "done"
                  \* after forward_events returned
  main_tx,        \* main still holds its downstream_tx
  ws_conn,        \* /ws clients whose send task reads the downstream channel
  ws_got,         \* per /ws client: the events written to its socket, in order
  ws_from,        \* per /ws client: events sent on the channel before it connected
  connections,    \* relay pool: the urls of the connection map
  conn_pc,        \* per connect_and_subscribe task: its position
  dd_tasks,       \* per concurrent is_duplicate call: its position and result
  accepted        \* per id: the calls of is_duplicate by the router of this
                  \* run that returned false

storeVars == <<evt, fwd, succ>>

engineVars == <<bloom, lru_cache, hot_set>>

routerVars == <<pending, pc, last_flush, sleep_start, downstream>>

histVars == <<seen, warmed, write_failed>>

chanVars == <<ingest_open, rx_open, fanout, fanout_calls>>

subsVars == <<bots, subscriptions, platform_state, broadcasts, last_sub>>

fwVars == <<fw_pc, main_tx>>

wsVars == <<ws_conn, ws_got, ws_from>>

poolVars == <<connections, conn_pc>>

taskVars == <<fwVars, wsVars, poolVars, dd_tasks>>

auxVars == <<taskVars, accepted>>

vars == <<evt, fwd, succ, bloom, lru_cache, hot_set, cfg, pending, pc, now,
          last_flush, sleep_start, downstream, fwd_pos, run, ingested, seen,
          warmed, write_failed, pending_since, last_call, last_fwd,
          last_batch, ingest_open, rx_open, fanout, fanout_calls, failed_ids,
          marks, last_op, bots, subscriptions, platform_state, broadcasts,
          last_sub, fw_pc, main_tx, ws_conn, ws_got, ws_from, connections,
          conn_pc, dd_tasks, accepted>>

\* the step just taken made no call of is_duplicate
NoCall ==
  [id |-> BadId, ret |-> FALSE, path |-> "none", known |-> FALSE,
   bloom_before |-> FALSE, evt_before |-> FALSE, evt_after |-> FALSE,
   failed |-> FALSE]

\* the step just taken forwarded no event
NoForward ==
  [id |-> BadId, all_succeeded |-> FALSE, mark_called |-> FALSE,
   flag_before |-> FALSE]

\* the step just taken neither received an event nor warmed the engine
NoOp == [op |-> "none", arg |-> BadId]

\* Option<String>: None, or Some(pubkey)
NoKey == [some |-> FALSE, key |-> ""]

SomeKey(k) == [some |-> TRUE, key |-> k]

\* the step just taken made no call of the subscription service
NoSub == [op |-> "none", up |-> FALSE, ok |-> FALSE, arg |-> <<>>, out |-> <<>>]

\* the database after init_schema on an empty database, nothing announced
SubsEmpty ==
  /\ bots = <<>>
  /\ subscriptions = <<>>
  /\ platform_state = NoKey
  /\ broadcasts = <<>>
  /\ last_sub = NoSub

\* both output channels have a receiver
AllOpen == [downstream |-> TRUE, fanout |-> TRUE]

\* faulty variant: spawned whenever an endpoint is configured
ForwarderSpawnedWithEndpoints(c) == c.tcp > 0 \/ c.rest > 0

\* main: the forwarder task is spawned when websocket_enabled is false and
\* an endpoint list is not empty
ForwarderSpawned(c) == ~c.websocket_enabled /\ (c.tcp > 0 \/ c.rest > 0)

\* the forwarder task as main leaves it
ForwarderAtStart(c) == IF ForwarderSpawned(c) THEN "run" ELSE "none"

\* no event accepted yet
NoneAccepted == [id \in EventIds |-> 0]

\* the clients that connect to /ws
WsClients == {"w1", "w2"}

\* the relays connect_and_subscribe is called for, one task each
RelayUrls == {"r1", "r2", "r3"}

\* the tasks that call is_duplicate at the same time
DedupTasks == {"t1", "t2"}

\* no /ws client yet
NoClients ==
  [conn |-> {}, got |-> [c \in WsClients |-> <<>>],
   from |-> [c \in WsClients |-> 0]]

\* RelayPool::new: an empty connection map, no connect task started
PoolAtStart == [conns |-> {}, pc |-> [u \in RelayUrls |-> "idle"]]

\* no concurrent call of is_duplicate in progress
NoDedupTasks == [t \in DedupTasks |-> [pc |-> "idle", id |-> BadId, ret |-> FALSE]]

\* the tasks and handles right after main has set the process up
TasksIdle ==
  /\ fw_pc = ForwarderAtStart(cfg)
  /\ main_tx = TRUE
  /\ ws_conn = NoClients.conn
  /\ ws_got = NoClients.got
  /\ ws_from = NoClients.from
  /\ connections = PoolAtStart.conns
  /\ conn_pc = PoolAtStart.pc
  /\ dd_tasks = NoDedupTasks
  /\ accepted = NoneAccepted

(* -------------------- storage/bloom_filter.rs -------------------------- *)
\* number of bit positions of the filter (BloomFilterLib::with_rate)
BloomBits == 2

\* the bit positions the filter's hash function gives an id
BloomHash(id) == {id % BloomBits}

\* BloomFilter::contains: every position of the id is set (false positives
\* happen when other ids have set them)
BloomContains(bl, id) == BloomHash(id) \subseteq bl

\* BloomFilter::insert
BloomInsert(bl, id) == bl \cup BloomHash(id)

(* -------------------- storage/memory_cache.rs -------------------------- *)
\* MemoryCache::with_capacity: NonZeroUsize::new(size.max(1))
LruCapacity(size) == Max(size, 1)

\* MemoryCache::contains: LruCache::contains does not touch the order
LruContains(l, id) == id \in Range(l)

\* faulty variant of LruPut: a present id keeps its place
LruPutNoPromote(l, id, size) ==
  IF id \in Range(l)
  THEN l
  ELSE Take(<<id>> \o l, LruCapacity(size))

\* MemoryCache::put: promote a present id, else insert and evict the
\* least recently used entry at capacity
LruPut(l, id, size) ==
  IF id \in Range(l)
  THEN <<id>> \o Remove(l, id)
  ELSE Take(<<id>> \o l, LruCapacity(size))

(* -------------------- storage/rocksdb_store.rs ------------------------- *)
\* RocksDBStore::exists: probes evt:{id}
Exists(e, id) == id \in e

\* RocksDBStore::store_event: put evt:{id}; a failed put writes nothing
StoreEvent(e, id, ok) == IF ok THEN e \cup {id} ELSE e

\* RocksDBStore::delete_event: deletes evt:{id} only
DeleteEventKey(e, id, ok) == IF ok THEN e \ {id} ELSE e

\* faulty variant of DeleteEvent: every key of the event is deleted
DeleteEventAllKeys(st, id, ok) ==
  IF ok
  THEN [evt |-> st.evt \ {id}, fwd |-> st.fwd \ {id},
        succ |-> {k \in st.succ : k[2] # id}]
  ELSE st

\* RocksDBStore::delete_event on the whole keyspace [evt, fwd, succ]
DeleteEvent(st, id, ok) ==
  [evt |-> DeleteEventKey(st.evt, id, ok), fwd |-> st.fwd, succ |-> st.succ]

\* faulty variant of MarkForwardSuccess: two separate puts, the second of which
\* is lost when the write fails
MarkForwardSuccessTwoPuts(st, id, now_ms, ok) ==
  IF ok
  THEN [fwd |-> st.fwd \cup {id}, succ |-> st.succ \cup {<<now_ms, id>>}]
  ELSE [fwd |-> st.fwd \cup {id}, succ |-> st.succ]

\* RocksDBStore::mark_forward_success: one WriteBatch with fwd:{id} and
\* succ:{now_ms}:{id}; a failed write applies none of the batch
MarkForwardSuccess(st, id, now_ms, ok) ==
  IF ok
  THEN [fwd |-> st.fwd \cup {id}, succ |-> st.succ \cup {<<now_ms, id>>}]
  ELSE st

\* RocksDBStore::is_forward_success: probes fwd:{id}
IsForwardSuccess(f, id) == id \in f

\* faulty variant of SuccKeyLess: the id is compared before the timestamp
SuccKeyLessIdFirst(a, b) == a[2] < b[2] \/ (a[2] = b[2] /\ a[1] < b[1])

\* byte order of two succ: keys (timestamp as 16 hex digits, then the id)
SuccKeyLess(a, b) == a[1] < b[1] \/ (a[1] = b[1] /\ a[2] < b[2])

\* the succ: keys from the end of the keyspace backwards
RECURSIVE SuccDescending(_)
SuccDescending(s) ==
  IF s = {} THEN <<>>
  ELSE LET top == CHOOSE k \in s : \A o \in s : o = k \/ SuccKeyLess(o, k)
       IN <<top>> \o SuccDescending(s \ {top})

\* RocksDBStore::load_recent_success_ids: reverse iteration from the end of
\* the keyspace; evt: and fwd: keys sort before succ: and are skipped
LoadRecentSuccessIds(s, limit) ==
  IF limit = 0 THEN <<>>
  ELSE LET keys == Take(SuccDescending(s), limit)
       IN [i \in 1..Len(keys) |-> keys[i][2]]

\* a key of the database as text: a prefix word, ':' separators, and the
\* texts of a timestamp or an id (v)
Word(w) == [t |-> w, v |-> 0]

Txt(v) == [t |-> "txt", v |-> v]

Colon == [t |-> ":", v |-> 0]

\* key_event, key_forward_status and key_success_index (the timestamp
\* written as 16 hex digits)
KeyEvent(id) == <<Word("evt"), Colon, Txt(id)>>

KeyForwardStatus(id) == <<Word("fwd"), Colon, Txt(id)>>

KeySuccessIndex(epoch_ms, id) ==
  <<Word("succ"), Colon, Txt(epoch_ms), Colon, Txt(id)>>

\* every key the database holds
Keyspace(e, f, s) ==
  {KeyEvent(id) : id \in e} \cup {KeyForwardStatus(id) : id \in f}
    \cup {KeySuccessIndex(k[1], k[2]) : k \in s}

\* byte order of the first letters of the prefixes: 'e' < 'f' < 's'
PrefixRank(k) ==
  IF k[1] = Word("evt") THEN 1 ELSE IF k[1] = Word("fwd") THEN 2 ELSE 3

\* byte order of two keys of the database
KeyLess(a, b) ==
  \/ PrefixRank(a) < PrefixRank(b)
  \/ /\ PrefixRank(a) = PrefixRank(b)
     /\ IF PrefixRank(a) = 3
        THEN SuccKeyLess(<<a[3].v, a[5].v>>, <<b[3].v, b[5].v>>)
        ELSE a[3].v < b[3].v

\* k.starts_with(b"succ:")
StartsWithSucc(k) == Len(k) >= 2 /\ k[1] = Word("succ") /\ k[2] = Colon

\* the positions of the ':' bytes of a key
ColonsOf(k) == {i \in 1..Len(k) : k[i] = Colon}

\* the event id of a succ: key: the text after the second ':', none when
\* the key has no second ':'
IdAfterSecondColon(k) ==
  IF Cardinality(ColonsOf(k)) < 2 THEN <<>>
  ELSE LET first == CHOOSE i \in ColonsOf(k) : \A j \in ColonsOf(k) : i <= j
           second == CHOOSE i \in ColonsOf(k) \ {first} :
                       \A j \in ColonsOf(k) \ {first} : i <= j
       IN [i \in 1..(Len(k) - second) |-> k[second + i].v]

\* faulty variant of ScanBack: the loop runs once more than limit allows
RECURSIVE ScanBackOneMore(_, _, _)
ScanBackOneMore(keys, limit, result) ==
  IF Len(result) > limit \/ keys = {} THEN result
  ELSE LET top == CHOOSE k \in keys : \A o \in keys : o = k \/ KeyLess(o, k)
       IN ScanBackOneMore(keys \ {top}, limit,
                          IF StartsWithSucc(top)
                          THEN result \o IdAfterSecondColon(top)
                          ELSE result)

\* the loop of load_recent_success_ids: the iterator runs from the last key
\* backwards while fewer than limit ids are collected
RECURSIVE ScanBack(_, _, _)
ScanBack(keys, limit, result) ==
  IF Len(result) >= limit \/ keys = {} THEN result
  ELSE LET top == CHOOSE k \in keys : \A o \in keys : o = k \/ KeyLess(o, k)
       IN ScanBack(keys \ {top}, limit,
                   IF StartsWithSucc(top)
                   THEN result \o IdAfterSecondColon(top)
                   ELSE result)

\* RocksDBStore::load_recent_success_ids over the whole keyspace
LoadRecentScan(e, f, s, limit) ==
  IF limit = 0 THEN <<>> ELSE ScanBack(Keyspace(e, f, s), limit, <<>>)

(* ---------------------- core/dedupe_engine.rs -------------------------- *)
\* self.hot_set.capacity() of the DashSet built with_capacity(hotset_size)
HotSetCapacity(c) == c.hotset_size

\* the keys a bulk eviction may remove: the first capacity/2 keys of the
\* DashSet's iteration order, which is arbitrary
EvictChoices(hs, cap) ==
  {v \in SUBSET hs : Cardinality(v) = Min(cap \div 2, Cardinality(hs))}

\* the hot set after the size check of the new-event path
HotSetAfterInsert(hs, cap) ==
  IF Cardinality(hs) >= cap
  THEN {hs \ v : v \in EvictChoices(hs, cap)}
  ELSE {hs}

\* faulty variant of IsDuplicate: an id the bloom filter does not contain is
\* stored in every layer
IsDuplicateStoresBloomMiss(st, c, id, ok) ==
  IF id \in st.hot
  THEN {[ret |-> TRUE, path |-> "hot", bloom |-> st.bloom, lru |-> st.lru,
         hot |-> st.hot, evt |-> st.evt, failed |-> FALSE]}
  ELSE IF ~BloomContains(st.bloom, id)
  THEN {[ret |-> FALSE, path |-> "bloom", bloom |-> BloomInsert(st.bloom, id),
         lru |-> LruPut(st.lru, id, c.lru_size), hot |-> st.hot \cup {id},
         evt |-> StoreEvent(st.evt, id, ok), failed |-> ~ok]}
  ELSE IF LruContains(st.lru, id)
  THEN {[ret |-> TRUE, path |-> "lru", bloom |-> st.bloom, lru |-> st.lru,
         hot |-> st.hot \cup {id}, evt |-> st.evt, failed |-> FALSE]}
  ELSE IF Exists(st.evt, id)
  THEN {[ret |-> TRUE, path |-> "store", bloom |-> st.bloom,
         lru |-> LruPut(st.lru, id, c.lru_size), hot |-> st.hot \cup {id},
         evt |-> st.evt, failed |-> FALSE]}
  ELSE {[ret |-> FALSE, path |-> "new", bloom |-> st.bloom,
         lru |-> LruPut(st.lru, id, c.lru_size), hot |-> h,
         evt |-> StoreEvent(st.evt, id, ok), failed |-> ~ok]
        : h \in HotSetAfterInsert(st.hot \cup {id}, HotSetCapacity(c))}

\* faulty variant of IsDuplicate: a positive answer of the bloom filter is taken
\* for a duplicate without consulting the LRU and the store
IsDuplicateBloomTrusted(st, c, id, ok) ==
  IF id \in st.hot
  THEN {[ret |-> TRUE, path |-> "hot", bloom |-> st.bloom, lru |-> st.lru,
         hot |-> st.hot, evt |-> st.evt, failed |-> FALSE]}
  ELSE IF ~BloomContains(st.bloom, id)
  THEN {[ret |-> FALSE, path |-> "bloom", bloom |-> BloomInsert(st.bloom, id),
         lru |-> st.lru, hot |-> st.hot \cup {id}, evt |-> st.evt,
         failed |-> FALSE]}
  ELSE {[ret |-> TRUE, path |-> "lru", bloom |-> st.bloom, lru |-> st.lru,
         hot |-> st.hot \cup {id}, evt |-> st.evt, failed |-> FALSE]}

\* DeduplicationEngine::is_duplicate on the engine state
\* st = [bloom, lru, hot, evt]; ok is the outcome of the store write.
\* The set of possible results [ret, path, bloom, lru, hot, evt, failed].
IsDuplicate(st, c, id, ok) ==
  IF id \in st.hot
  THEN {[ret |-> TRUE, path |-> "hot", bloom |-> st.bloom, lru |-> st.lru,
         hot |-> st.hot, evt |-> st.evt, failed |-> FALSE]}
  ELSE IF ~BloomContains(st.bloom, id)
  THEN {[ret |-> FALSE, path |-> "bloom", bloom |-> BloomInsert(st.bloom, id),
         lru |-> st.lru, hot |-> st.hot \cup {id}, evt |-> st.evt,
         failed |-> FALSE]}
  ELSE IF LruContains(st.lru, id)
  THEN {[ret |-> TRUE, path |-> "lru", bloom |-> st.bloom, lru |-> st.lru,
         hot |-> st.hot \cup {id}, evt |-> st.evt, failed |-> FALSE]}
  ELSE IF Exists(st.evt, id)
  THEN {[ret |-> TRUE, path |-> "store", bloom |-> st.bloom,
         lru |-> LruPut(st.lru, id, c.lru_size), hot |-> st.hot \cup {id},
         evt |-> st.evt, failed |-> FALSE]}
  ELSE {[ret |-> FALSE, path |-> "new", bloom |-> st.bloom,
         lru |-> LruPut(st.lru, id, c.lru_size), hot |-> h,
         evt |-> StoreEvent(st.evt, id, ok), failed |-> ~ok]
        : h \in HotSetAfterInsert(st.hot \cup {id}, HotSetCapacity(c))}

\* faulty variant of WarmOne: the caches are filled, the bloom filter is not
WarmOneCachesOnly(st, c, id) ==
  [bloom |-> st.bloom,
   lru   |-> LruPut(st.lru, id, c.lru_size),
   hot   |-> st.hot \cup {id},
   evt   |-> st.evt]

\* the loop body of warm_from_db for one loaded id
WarmOne(st, c, id) ==
  [bloom |-> IF Decodes(id) THEN BloomInsert(st.bloom, id) ELSE st.bloom,
   lru   |-> LruPut(st.lru, id, c.lru_size),
   hot   |-> st.hot \cup {id},
   evt   |-> st.evt]

\* faulty variant of WarmLoop: only the most recent id is warmed
WarmLoopFirstOnly(st, c, ids) ==
  IF ids = <<>> THEN st
  ELSE WarmOne(st, c, Head(ids))

\* the loop of warm_from_db over the loaded ids, most recent first
RECURSIVE WarmLoop(_, _, _)
WarmLoop(st, c, ids) ==
  IF ids = <<>> THEN st
  ELSE WarmLoop(WarmOne(st, c, Head(ids)), c, Tail(ids))

\* DeduplicationEngine::warm_from_db(limit)
WarmFromDb(st, c, s, limit) ==
  IF limit = 0 THEN st
  ELSE WarmLoop(st, c, LoadRecentSuccessIds(s, limit))

\* the engine state held in the variables
EngineState == [bloom |-> bloom, lru |-> lru_cache, hot |-> hot_set, evt |-> evt]

\* DeduplicationEngine::new_with_params over the open store
FreshEngine(e) == [bloom |-> {}, lru |-> <<>>, hot |-> {}, evt |-> e]

(* ----------------------- core/event_router.rs -------------------------- *)
\* EventWrapper::cmp: wrappers are ordered by timestamp alone
WrapperLessEq(a, b) == CreatedAt(a) <= CreatedAt(b)

\* insertion of one wrapper behind every wrapper that is not greater
RECURSIVE InsertSorted(_, _)
InsertSorted(s, x) ==
  IF s = <<>> THEN <<x>>
  ELSE IF WrapperLessEq(Head(s), x)
       THEN <<Head(s)>> \o InsertSorted(Tail(s), x)
       ELSE <<x>> \o s

\* faulty variant of SortPending: the buffer is left in arrival order
SortPendingArrivalOrder(s) == s

\* pending.sort(): the stable sort of the buffer
RECURSIVE SortPending(_)
SortPending(s) ==
  IF s = <<>> THEN <<>>
  ELSE InsertSorted(SortPending(SubSeq(s, 1, Len(s) - 1)), s[Len(s)])

\* faulty variant of FlushBatch: the whole buffer is taken, whatever the
\* batch size
FlushBatchWholeBuffer(p, c) == [batch |-> SortPending(p), rest |-> <<>>]

\* faulty variant of FlushBatch: a batch size of 0 is taken as 1
FlushBatchAtLeastOne(p, c) ==
  LET n == Min(Max(c.batch_size, 1), Len(p))
  IN IF n = 0
     THEN [batch |-> <<>>, rest |-> p]
     ELSE [batch |-> Take(SortPending(p), n), rest |-> Drop(SortPending(p), n)]

\* EventRouter::flush_batch on the buffer p: the batch sent downstream and
\* the buffer left behind
FlushBatch(p, c) ==
  LET n == Min(c.batch_size, Len(p))
  IN IF n = 0
     THEN [batch |-> <<>>, rest |-> p]
     ELSE [batch |-> Take(SortPending(p), n), rest |-> Drop(SortPending(p), n)]

\* faulty variant of FlushAll: the buffer is drained without the sort
FlushAllUnsorted(p) == [batch |-> p, rest |-> <<>>]

\* EventRouter::flush_all on the buffer p
FlushAll(p) == [batch |-> SortPending(p), rest |-> <<>>]

\* faulty variant of KindAllowed: the allowlist is not consulted
KindAllowedAny(c, id) == TRUE

\* the kind filter at the head of the receive branch
KindAllowed(c, id) ==
  ~c.allowed_kinds.some \/ KindOf(id) \in c.allowed_kinds.kinds

(* ------------------------ core/downstream.rs --------------------------- *)
\* what awaiting a spawned forward task yields: Ok(Ok(())), Ok(Err(e)) or
\* Err(JoinError) (the task panicked or was cancelled)
TaskOutcomes == {"ok", "err", "join_err"}

\* all_ok after the two loops that await the TCP and the REST tasks: only
\* the pattern Ok(Err(e)) clears it
AllOk(tcp_res, rest_res) ==
  /\ \A i \in DOMAIN tcp_res : tcp_res[i] # "err"
  /\ \A i \in DOMAIN rest_res : rest_res[i] # "err"

\* every forward attempted for the event succeeded
AllSucceeded(tcp_res, rest_res) ==
  /\ \A i \in DOMAIN tcp_res : tcp_res[i] = "ok"
  /\ \A i \in DOMAIN rest_res : rest_res[i] = "ok"

(* ----------------------- core/subscription.rs -------------------------- *)
\* event.pubkey: the bot that emitted the event
PubkeyOf(id) == IF id % 2 = 1 THEN "bp" ELSE "bq"

\* the subscriptions table, rows (bot_pubkey, follower_pubkey) in the order
\* the query returns them
SubscriptionRows == << <<"bp", "f1">>, <<"bp", "f2">> >>

\* faulty variant of ListSubscriptions: the WHERE clause is missing
ListSubscriptionsAll(rows, bot) == rows

\* list_subscriptions: the rows of one bot
ListSubscriptions(rows, bot) ==
  LET Match(r) == r[1] = bot IN SelectSeq(rows, Match)

\* fanout_for_event: one message per subscription row of the event's bot,
\* or Err (ok = FALSE: the query or an encryption failed)
FanoutForEvent(rows, id, ok) ==
  LET subs == ListSubscriptions(rows, PubkeyOf(id))
  IN IF ~ok
     THEN [ok |-> FALSE, msgs |-> <<>>]
     ELSE [ok |-> TRUE,
           msgs |-> [i \in 1..Len(subs) |->
                      [target_pubkey |-> subs[i][2],
                       bot_pubkey |-> PubkeyOf(id),
                       kind |-> KindOf(id),
                       original_event_id |-> id]]]

\* event.content, as bytes
ContentOf(id) == [i \in 1..(id % 3) |-> id + i]

\* the length of the nonce of ChaCha20-Poly1305, in bytes
NonceLen == 12

\* nonces the random generator may fill in
Nonces == {[i \in 1..NonceLen |-> b] : b \in {0, 1}}

ZeroNonce == [i \in 1..NonceLen |-> 0]

\* Sha256 of the secret's bytes, taken as free of collisions
Sha256(x) == <<"sha256", x>>

\* ChaCha20Poly1305::encrypt with empty associated data: one ciphertext byte
\* per plaintext byte, followed by the authentication tag
AeadEncrypt(key, nonce, plain) ==
  [i \in 1..Len(plain) |-> [k |-> key, n |-> nonce, i |-> i, b |-> <<plain[i]>>]]
    \o << [k |-> key, n |-> nonce, i |-> 0, b |-> plain] >>

\* ChaCha20Poly1305::decrypt with empty associated data: the plaintext when
\* the tag verifies under this key and nonce
AeadDecrypt(key, nonce, ct) ==
  IF ct = <<>> THEN [ok |-> FALSE, plain |-> <<>>]
  ELSE LET body == SubSeq(ct, 1, Len(ct) - 1)
           plain == [i \in 1..Len(body) |-> body[i].b[1]]
       IN IF ct[Len(ct)] = [k |-> key, n |-> nonce, i |-> 0, b |-> plain]
          THEN [ok |-> TRUE, plain |-> plain]
          ELSE [ok |-> FALSE, plain |-> <<>>]

\* BASE64.encode and its inverse: the text that stands for the bytes
Base64Encode(bytes) == [b64 |-> bytes]

Base64Decode(text) == text.b64

\* faulty variant of EncryptWithSecret: the nonce in front of the ciphertext
\* is not the one the content was encrypted with
EncryptWithSecretStaleNonce(content, secret, nonce) ==
  Base64Encode(ZeroNonce \o AeadEncrypt(Sha256(secret), nonce, content))

\* encrypt_with_secret: base64(nonce || ciphertext || tag) under the key
\* SHA-256(shared_secret)
EncryptWithSecret(content, secret, nonce) ==
  Base64Encode(nonce \o AeadEncrypt(Sha256(secret), nonce, content))

\* what a subscriber does with a payload: reverse base64, split off the
\* first NonceLen bytes as the nonce, decrypt the rest under SHA-256(secret)
DecryptPayload(payload, secret) ==
  LET bytes == Base64Decode(payload)
  IN IF Len(bytes) < NonceLen THEN [ok |-> FALSE, plain |-> <<>>]
     ELSE AeadDecrypt(Sha256(secret), SubSeq(bytes, 1, NonceLen),
                      SubSeq(bytes, NonceLen + 1, Len(bytes)))

\* fanout_for_event with the payloads: the message of each subscription row
\* (bot_pubkey, follower_pubkey, shared_secret) carries the content encrypted
\* under the row's secret with a fresh nonce
FanoutMessages(rows, id, ok, nonces) ==
  LET subs == ListSubscriptions(rows, PubkeyOf(id))
      r == FanoutForEvent(rows, id, ok)
  IN [ok |-> r.ok,
      msgs |-> [i \in 1..Len(r.msgs) |->
                 [target_pubkey |-> r.msgs[i].target_pubkey,
                  bot_pubkey |-> r.msgs[i].bot_pubkey,
                  kind |-> r.msgs[i].kind,
                  original_event_id |-> r.msgs[i].original_event_id,
                  payload |-> EncryptWithSecret(ContentOf(id), subs[i][3],
                                                nonces[i])]]]

\* faulty variant of RegisterBot: a conflicting row keeps its eth_address
RegisterBotKeepsEth(tbl, bot, nostr, eth, name, ok) ==
  LET SameBot(r) == r.bot_pubkey = bot
      OtherWithEth(r) == r.bot_pubkey # bot /\ r.eth_address = eth
  IN IF ~ok \/ (\E i \in 1..Len(tbl) : OtherWithEth(tbl[i]))
     THEN [ok |-> FALSE, bots |-> tbl]
     ELSE IF (\E i \in 1..Len(tbl) : SameBot(tbl[i]))
     THEN [ok |-> TRUE,
           bots |-> [i \in 1..Len(tbl) |->
                      IF SameBot(tbl[i])
                      THEN [bot_pubkey |-> bot, nostr_pubkey |-> nostr,
                            eth_address |-> tbl[i].eth_address, name |-> name]
                      ELSE tbl[i]]]
     ELSE [ok |-> TRUE,
           bots |-> Append(tbl, [bot_pubkey |-> bot, nostr_pubkey |-> nostr,
                                 eth_address |-> eth, name |-> name])]

\* register_bot: INSERT ... ON CONFLICT (bot_pubkey) DO UPDATE; the statement
\* fails, changing nothing, when the connection fails (ok = FALSE) or another
\* bot's row holds the eth_address (UNIQUE)
RegisterBot(tbl, bot, nostr, eth, name, ok) ==
  LET SameBot(r) == r.bot_pubkey = bot
      OtherWithEth(r) == r.bot_pubkey # bot /\ r.eth_address = eth
      row == [bot_pubkey |-> bot, nostr_pubkey |-> nostr,
              eth_address |-> eth, name |-> name]
  IN IF ~ok \/ (\E i \in 1..Len(tbl) : OtherWithEth(tbl[i]))
     THEN [ok |-> FALSE, bots |-> tbl]
     ELSE IF (\E i \in 1..Len(tbl) : SameBot(tbl[i]))
     THEN [ok |-> TRUE,
           bots |-> [i \in 1..Len(tbl) |->
                      IF SameBot(tbl[i]) THEN row ELSE tbl[i]]]
     ELSE [ok |-> TRUE, bots |-> Append(tbl, row)]

\* add_subscription: INSERT ... ON CONFLICT (bot_pubkey, follower_pubkey) DO
\* UPDATE SET shared_secret; the statement fails, changing nothing, when the
\* connection fails or the bot has no row in bots (REFERENCES bots)
AddSubscription(tbl, subs, bot, follower, secret, ok) ==
  LET IsBot(r) == r.bot_pubkey = bot
      SamePair(r) == r[1] = bot /\ r[2] = follower
  IN IF ~ok \/ (\A i \in 1..Len(tbl) : ~IsBot(tbl[i]))
     THEN [ok |-> FALSE, subscriptions |-> subs]
     ELSE IF (\E i \in 1..Len(subs) : SamePair(subs[i]))
     THEN [ok |-> TRUE,
           subscriptions |-> [i \in 1..Len(subs) |->
                               IF SamePair(subs[i])
                               THEN <<bot, follower, secret>>
                               ELSE subs[i]]]
     ELSE [ok |-> TRUE,
           subscriptions |-> Append(subs, <<bot, follower, secret>>)]

\* faulty variant of EnsurePlatformPubkey: the announcement is made whether
\* or not the stored pubkey differs
EnsurePlatformPubkeyAlways(stored, p, client, keys, ok) ==
  IF ~ok
  THEN [ok |-> FALSE, stored |-> stored, announced |-> <<>>]
  ELSE [ok |-> TRUE, stored |-> SomeKey(p),
        announced |-> IF client /\ keys
                      THEN << [new_pubkey |-> p, previous_pubkey |-> stored] >>
                      ELSE <<>>]

\* ensure_platform_pubkey(current_pubkey, nostr_client, nostr_keys): client
\* and keys tell whether the Options are Some; ok = FALSE is a failure of the
\* connection or of a statement, which returns Err before anything is sent
EnsurePlatformPubkey(stored, p, client, keys, ok) ==
  LET needs_update == ~stored.some \/ stored.key # p
  IN IF ~ok
     THEN [ok |-> FALSE, stored |-> stored, announced |-> <<>>]
     ELSE IF ~needs_update
     THEN [ok |-> TRUE, stored |-> stored, announced |-> <<>>]
     ELSE [ok |-> TRUE, stored |-> SomeKey(p),
           announced |-> IF client /\ keys
                         THEN << [new_pubkey |-> p,
                                  previous_pubkey |-> stored] >>
                         ELSE <<>>]

(* ------------------ core/event_router.rs: emission --------------------- *)
\* the channels as the router sees them
Channels == [down |-> downstream, fan |-> fanout, calls |-> fanout_calls]

\* the events of a batch whose fanout_for_event call may fail
FailChoices(c, batch) == IF c.fanout THEN SUBSET Range(batch) ELSE {{}}

\* faulty variant of SendBatch: each event is sent downstream before its
\* fanout messages
RECURSIVE SendBatchEventFirst(_, _, _, _, _)
SendBatchEventFirst(batch, c, open, failing, ch) ==
  IF batch = <<>> THEN ch
  ELSE LET e == Head(batch)
           r == FanoutForEvent(SubscriptionRows, e, e \notin failing)
           down1 == IF open.downstream THEN Append(ch.down, e) ELSE ch.down
           at == Len(down1)
           calls1 == IF c.fanout
                     THEN Append(ch.calls, [id |-> e, ok |-> r.ok, at |-> at])
                     ELSE ch.calls
           fan1 == IF c.fanout /\ open.fanout
                   THEN ch.fan \o [i \in 1..Len(r.msgs) |->
                                    [msg |-> r.msgs[i], at |-> at]]
                   ELSE ch.fan
       IN SendBatchEventFirst(Tail(batch), c, open, failing,
                              [down |-> down1, fan |-> fan1, calls |-> calls1])

\* faulty variant of SendBatch: a failed fanout_for_event ends the loop
RECURSIVE SendBatchStopOnError(_, _, _, _, _)
SendBatchStopOnError(batch, c, open, failing, ch) ==
  IF batch = <<>> THEN ch
  ELSE LET e == Head(batch)
           r == FanoutForEvent(SubscriptionRows, e, e \notin failing)
           at == Len(ch.down)
           calls1 == IF c.fanout
                     THEN Append(ch.calls, [id |-> e, ok |-> r.ok, at |-> at])
                     ELSE ch.calls
           fan1 == IF c.fanout /\ open.fanout
                   THEN ch.fan \o [i \in 1..Len(r.msgs) |->
                                    [msg |-> r.msgs[i], at |-> at]]
                   ELSE ch.fan
           down1 == IF open.downstream THEN Append(ch.down, e) ELSE ch.down
       IN IF c.fanout /\ ~r.ok
          THEN [down |-> ch.down, fan |-> ch.fan, calls |-> calls1]
          ELSE SendBatchStopOnError(Tail(batch), c, open, failing,
                                    [down |-> down1, fan |-> fan1,
                                     calls |-> calls1])

\* flush_batch, the loop over the batch: per event the fanout messages,
\* then the event itself; a failed send is logged and the loop goes on
RECURSIVE SendBatch(_, _, _, _, _)
SendBatch(batch, c, open, failing, ch) ==
  IF batch = <<>> THEN ch
  ELSE LET e == Head(batch)
           r == FanoutForEvent(SubscriptionRows, e, e \notin failing)
           at == Len(ch.down)
           calls1 == IF c.fanout
                     THEN Append(ch.calls, [id |-> e, ok |-> r.ok, at |-> at])
                     ELSE ch.calls
           fan1 == IF c.fanout /\ open.fanout
                   THEN ch.fan \o [i \in 1..Len(r.msgs) |->
                                    [msg |-> r.msgs[i], at |-> at]]
                   ELSE ch.fan
           down1 == IF open.downstream THEN Append(ch.down, e) ELSE ch.down
       IN SendBatch(Tail(batch), c, open, failing,
                    [down |-> down1, fan |-> fan1, calls |-> calls1])

\* flush_all, the loop over the drained buffer: the events alone
RECURSIVE SendAll(_, _, _)
SendAll(batch, open, ch) ==
  IF batch = <<>> THEN ch
  ELSE SendAll(Tail(batch), open,
               [ch EXCEPT !.down = IF open.downstream
                                   THEN Append(ch.down, Head(batch))
                                   ELSE ch.down])

\* faulty variant of FlushResult: a failed send is returned as the error
FlushResultOfSends(sent_all) == IF sent_all THEN "ok" ELSE "err"

\* what flush_batch and flush_all return: Ok(()) whatever the sends did
FlushResult(sent_all) == "ok"

(* ------------------------------ actions -------------------------------- *)
\* the record kept of one is_duplicate call with result r
CallRecord(id, r) ==
  [id |-> id, ret |-> r.ret, path |-> r.path,
   known |-> id \in (seen \cup warmed),
   bloom_before |-> BloomContains(bloom, id),
   evt_before |-> id \in evt, evt_after |-> id \in r.evt, failed |-> r.failed]

\* main: the store is opened, the engine is built and warmed with
\* warm_limit = hotset_size
StartEngine(c, e, s) == WarmFromDb(FreshEngine(e), c, s, c.hotset_size)

Init ==
  /\ SubsEmpty
  /\ evt = {}
  /\ fwd = {}
  /\ succ = {}
  /\ run = 1
  /\ ingested = 0
  /\ cfg \in Configs
  /\ bloom = StartEngine(cfg, {}, {}).bloom
  /\ lru_cache = StartEngine(cfg, {}, {}).lru
  /\ hot_set = StartEngine(cfg, {}, {}).hot
  /\ warmed = {}
  /\ seen = {}
  /\ pending = <<>>
  /\ pc = "run"
  /\ now = 0
  /\ last_flush = 0
  /\ sleep_start = 0
  /\ downstream = <<>>
  /\ fwd_pos = 0
  /\ write_failed = FALSE
  /\ last_call = NoCall
  /\ last_fwd = NoForward
  /\ last_batch = <<>>
  /\ pending_since = 0
  /\ ingest_open = TRUE
  /\ rx_open = AllOpen
  /\ fanout = <<>>
  /\ fanout_calls = <<>>
  /\ failed_ids = {}
  /\ marks = <<>>
  /\ last_op = NoOp
  /\ TasksIdle

\* the time since which the buffer p2, left by a step on buffer p1, has
\* been non-empty
Since(p1, p2) ==
  IF p2 = <<>> THEN 0 ELSE IF p1 = <<>> THEN now ELSE pending_since

\* the router's state after a flush f: the channels ch the sends left, and
\* process_stream going on or returning the flush's error
AfterFlush(f, ch) ==
  /\ pending' = f.rest
  /\ downstream' = ch.down
  /\ fanout' = ch.fan
  /\ fanout_calls' = ch.calls
  /\ last_batch' = f.batch
  /\ last_flush' = now
  /\ pending_since' = Since(pending, f.rest)
  /\ pc' = IF FlushResult(rx_open.downstream /\ rx_open.fanout) = "ok"
           THEN "run" ELSE "failed"

\* faulty variant of SizeFlushDue: the flush waits for more than batch_size
\* events
SizeFlushDueAboveSize(p, c) == Len(p) > c.batch_size

\* the condition of the receive branch, after the push: the buffer holds
\* batch_size events or more
SizeFlushDue(p, c) == Len(p) >= c.batch_size

\* process_stream, branch recv_async() = Ok(event)
RouterRecv(id, ok) ==
  /\ UNCHANGED subsVars
  /\ UNCHANGED taskVars
  /\ pc = "run"
  /\ ingest_open
  /\ ingested < MaxIngest
  /\ ingested' = ingested + 1
  /\ sleep_start' = now
  /\ last_op' = [op |-> "recv", arg |-> id]
  /\ IF ~KindAllowed(cfg, id)
     THEN /\ last_call' = NoCall
          /\ last_batch' = <<>>
          /\ UNCHANGED <<evt, bloom, lru_cache, hot_set, pending, last_flush,
                         downstream, seen, write_failed, pending_since, pc,
                         fanout, fanout_calls, failed_ids, accepted>>
     ELSE \E r \in IsDuplicate(EngineState, cfg, id, ok) :
            /\ bloom' = r.bloom
            /\ lru_cache' = r.lru
            /\ hot_set' = r.hot
            /\ evt' = r.evt
            /\ seen' = seen \cup {id}
            /\ write_failed' = (write_failed \/ r.failed)
            /\ failed_ids' = IF r.failed THEN failed_ids \cup {id}
                                         ELSE failed_ids
            /\ last_call' = CallRecord(id, r)
            /\ accepted' = IF r.ret THEN accepted
                           ELSE [accepted EXCEPT ![id] = @ + 1]
            /\ IF r.ret
               THEN /\ last_batch' = <<>>
                    /\ UNCHANGED <<pending, last_flush, downstream,
                                   pending_since, pc, fanout, fanout_calls>>
               ELSE LET p == Append(pending, id)
                        f == FlushBatch(p, cfg)
                    IN IF SizeFlushDue(p, cfg)
                       THEN \E failing \in FailChoices(cfg, f.batch) :
                              AfterFlush(f, SendBatch(f.batch, cfg, rx_open,
                                                      failing, Channels))
                       ELSE /\ pending' = p
                            /\ last_batch' = <<>>
                            /\ pending_since' = Since(pending, p)
                            /\ UNCHANGED <<last_flush, downstream, pc, fanout,
                                           fanout_calls>>
  /\ last_fwd' = NoForward
  /\ UNCHANGED <<fwd, succ, cfg, now, fwd_pos, run, warmed, ingest_open,
                 rx_open, marks>>

\* faulty variant of TimerFlushDue: the timer branch always flushes
TimerFlushDueAlways(p, elapsed) == TRUE

\* the condition of the timer branch: the buffer holds events and the last
\* flush is max_latency or more ago
TimerFlushDue(p, elapsed) == p # <<>> /\ elapsed >= max_latency

\* process_stream, branch timeout
RouterTimeout ==
  /\ UNCHANGED subsVars
  /\ UNCHANGED auxVars
  /\ pc = "run"
  /\ now >= sleep_start + max_latency
  /\ sleep_start' = now
  /\ IF TimerFlushDue(pending, now - last_flush)
     THEN LET f == FlushBatch(pending, cfg)
          IN \E failing \in FailChoices(cfg, f.batch) :
               AfterFlush(f, SendBatch(f.batch, cfg, rx_open, failing,
                                       Channels))
     ELSE /\ last_batch' = <<>>
          /\ UNCHANGED <<pending, downstream, last_flush, pending_since, pc,
                         fanout, fanout_calls>>
  /\ last_call' = NoCall
  /\ last_fwd' = NoForward
  /\ last_op' = [op |-> "timeout", arg |-> BadId]
  /\ UNCHANGED <<storeVars, engineVars, cfg, now, fwd_pos, run, ingested,
                 histVars, ingest_open, rx_open, failed_ids, marks>>

\* every sender of the ingest channel is dropped
IngestClose ==
  /\ UNCHANGED subsVars
  /\ UNCHANGED auxVars
  /\ pc = "run"
  /\ ingest_open
  /\ ingest_open' = FALSE
  /\ last_call' = NoCall
  /\ last_fwd' = NoForward
  /\ last_batch' = <<>>
  /\ last_op' = NoOp
  /\ UNCHANGED <<storeVars, engineVars, cfg, routerVars, now, fwd_pos, run,
                 ingested, histVars, pending_since, rx_open, fanout,
                 fanout_calls, failed_ids, marks>>

\* the receivers of one output channel are dropped
DropReceiver(chan) ==
  /\ UNCHANGED subsVars
  /\ UNCHANGED auxVars
  /\ pc = "run"
  /\ rx_open[chan]
  /\ rx_open' = [rx_open EXCEPT ![chan] = FALSE]
  /\ last_call' = NoCall
  /\ last_fwd' = NoForward
  /\ last_batch' = <<>>
  /\ last_op' = NoOp
  /\ UNCHANGED <<storeVars, engineVars, cfg, routerVars, now, fwd_pos, run,
                 ingested, histVars, pending_since, ingest_open, fanout,
                 fanout_calls, failed_ids, marks>>

\* process_stream, branch recv_async() = Err: the ingest stream is closed
RouterClose ==
  /\ UNCHANGED subsVars
  /\ UNCHANGED auxVars
  /\ pc = "run"
  /\ ~ingest_open
  /\ LET f == FlushAll(pending)
         ch == SendAll(f.batch, rx_open, Channels)
     IN /\ pending' = f.rest
        /\ downstream' = ch.down
        /\ fanout' = ch.fan
        /\ fanout_calls' = ch.calls
        /\ last_batch' = f.batch
  /\ pc' = IF FlushResult(rx_open.downstream) = "ok" THEN "done" ELSE "failed"
  /\ pending_since' = 0
  /\ last_call' = NoCall
  /\ last_fwd' = NoForward
  /\ last_op' = NoOp
  /\ UNCHANGED <<storeVars, engineVars, cfg, now, last_flush, sleep_start,
                 fwd_pos, run, ingested, histVars, ingest_open, rx_open,
                 failed_ids, marks>>

\* time passes; the sleep of the current loop iteration completes at
\* sleep_start + max_latency, where the timeout branch is taken
Tick ==
  /\ UNCHANGED subsVars
  /\ UNCHANGED auxVars
  /\ pc = "run"
  /\ now < MaxTime
  /\ now < sleep_start + max_latency
  /\ now' = now + 1
  /\ last_call' = NoCall
  /\ last_fwd' = NoForward
  /\ last_batch' = <<>>
  /\ last_op' = NoOp
  /\ UNCHANGED <<storeVars, engineVars, cfg, pending, pc, last_flush,
                 sleep_start, downstream, fwd_pos, run, ingested, histVars,
                 pending_since, chanVars, failed_ids, marks>>

\* faulty variant of ForwardResult: an endpoint failure or a failed mark
\* ends the loop
ForwardResultStopOnError(all_ok, mark_ok) ==
  IF all_ok /\ mark_ok THEN "run" ELSE "done"

\* forward_events after one event: endpoint errors and a failed
\* mark_forward_success are logged, and the loop goes on
ForwardResult(all_ok, mark_ok) == "run"

\* forward_events: one event taken from the downstream channel, forwarded
\* to every endpoint, marked when all_ok
ForwardEvent(tcp_res, rest_res, now_ms, ok) ==
  /\ UNCHANGED subsVars
  /\ UNCHANGED <<main_tx, wsVars, poolVars, dd_tasks, accepted>>
  /\ fw_pc = "run"
  /\ fw_pc' = ForwardResult(AllOk(tcp_res, rest_res), ok)
  /\ fwd_pos < Len(downstream)
  /\ LET id == downstream[fwd_pos + 1]
         st == [fwd |-> fwd, succ |-> succ]
         m  == IF AllOk(tcp_res, rest_res)
               THEN MarkForwardSuccess(st, id, now_ms, ok)
               ELSE st
     IN /\ fwd' = m.fwd
        /\ succ' = m.succ
        /\ marks' = IF AllOk(tcp_res, rest_res) /\ ok
                    THEN Append(marks, <<now_ms, id>>) ELSE marks
        /\ last_fwd' = [id |-> id,
                        all_succeeded |-> AllSucceeded(tcp_res, rest_res),
                        mark_called |-> AllOk(tcp_res, rest_res),
                        flag_before |-> IsForwardSuccess(fwd, id)]
  /\ fwd_pos' = fwd_pos + 1
  /\ last_call' = NoCall
  /\ last_batch' = <<>>
  /\ last_op' = NoOp
  /\ UNCHANGED <<evt, engineVars, cfg, routerVars, now, run, ingested,
                 histVars, pending_since, chanVars, failed_ids>>

\* the process ends and is started again over the same store: the
\* in-memory layers, the buffer and the channels are new
Restart ==
  /\ UNCHANGED subsVars
  /\ fw_pc' = ForwarderAtStart(cfg)
  /\ main_tx' = TRUE
  /\ ws_conn' = NoClients.conn
  /\ ws_got' = NoClients.got
  /\ ws_from' = NoClients.from
  /\ connections' = PoolAtStart.conns
  /\ conn_pc' = PoolAtStart.pc
  /\ dd_tasks' = NoDedupTasks
  /\ accepted' = NoneAccepted
  /\ run < MaxRuns
  /\ run' = run + 1
  /\ LET st == StartEngine(cfg, evt, succ)
     IN /\ bloom' = st.bloom
        /\ lru_cache' = st.lru
        /\ hot_set' = st.hot
  /\ warmed' = Range(LoadRecentSuccessIds(succ, cfg.hotset_size))
  /\ seen' = {}
  /\ pending' = <<>>
  /\ pc' = "run"
  /\ now' = 0
  /\ last_flush' = 0
  /\ sleep_start' = 0
  /\ downstream' = <<>>
  /\ fwd_pos' = 0
  /\ write_failed' = FALSE
  /\ last_call' = NoCall
  /\ last_fwd' = NoForward
  /\ last_batch' = <<>>
  /\ pending_since' = 0
  /\ ingest_open' = TRUE
  /\ rx_open' = AllOpen
  /\ fanout' = <<>>
  /\ fanout_calls' = <<>>
  /\ failed_ids' = {}
  /\ last_op' = NoOp
  /\ UNCHANGED <<storeVars, cfg, ingested, marks>>

Next ==
  \/ \E id \in EventIds, ok \in BOOLEAN : RouterRecv(id, ok)
  \/ RouterTimeout
  \/ IngestClose
  \/ RouterClose
  \/ Tick
  \/ \E tcp_res \in [1..cfg.tcp -> TaskOutcomes],
        rest_res \in [1..cfg.rest -> TaskOutcomes],
        now_ms \in 0..MaxClock, ok \in BOOLEAN :
       ForwardEvent(tcp_res, rest_res, now_ms, ok)
  \/ Restart

Spec == Init /\ [][Next]_vars

(* ---------------- the router and the forwarder of one run -------------- *)
\* every Sender of the downstream channel is dropped: the router's, when
\* process_stream has returned or its task was aborted, and main's
DownstreamClosed == ~main_tx /\ pc # "run"

\* main after ctrl_c: the router task is aborted and main returns, which
\* drops its downstream_tx
Shutdown ==
  /\ UNCHANGED subsVars
  /\ main_tx
  /\ main_tx' = FALSE
  /\ pc' = IF pc = "run" THEN "aborted" ELSE pc
  /\ last_call' = NoCall
  /\ last_fwd' = NoForward
  /\ last_batch' = <<>>
  /\ last_op' = NoOp
  /\ UNCHANGED <<storeVars, engineVars, cfg, pending, last_flush,
                 sleep_start, downstream, now, fwd_pos, run, ingested,
                 histVars, pending_since, chanVars, failed_ids, marks,
                 fw_pc, wsVars, poolVars, dd_tasks, accepted>>

\* forward_events, branch recv_async() = Err: the channel is closed and
\* empty, the loop ends and Ok(()) is returned
ForwardClose ==
  /\ UNCHANGED subsVars
  /\ fw_pc = "run"
  /\ DownstreamClosed
  /\ fwd_pos = Len(downstream)
  /\ fw_pc' = "done"
  /\ last_call' = NoCall
  /\ last_fwd' = NoForward
  /\ last_batch' = <<>>
  /\ last_op' = NoOp
  /\ UNCHANGED <<storeVars, engineVars, cfg, routerVars, now, fwd_pos, run,
                 ingested, histVars, pending_since, chanVars, failed_ids,
                 marks, main_tx, wsVars, poolVars, dd_tasks, accepted>>

\* the run followed: TCP and REST endpoints configured, no WebSocket
InitForwarder == Init /\ cfg.tcp > 0 /\ cfg.rest > 0

\* the router feeds the channel by its size-triggered flushes and by the
\* flush at the end of the stream; every mark reads the same millisecond
NextForwarder ==
  \/ \E id \in EventIds, ok \in BOOLEAN : RouterRecv(id, ok)
  \/ IngestClose
  \/ RouterClose
  \/ \E tcp_res \in [1..cfg.tcp -> TaskOutcomes],
        rest_res \in [1..cfg.rest -> TaskOutcomes],
        now_ms \in {0}, ok \in BOOLEAN :
       ForwardEvent(tcp_res, rest_res, now_ms, ok)
  \/ Shutdown
  \/ ForwardClose

SpecForwarder == InitForwarder /\ [][NextForwarder]_vars

(* --------------- the router alone, over an empty store ----------------- *)
\* the configurations the router is run with
RouterConfigs ==
  { [hotset_size |-> 2, lru_size |-> 2, batch_size |-> 2,
     allowed_kinds |-> AllowedKinds({}), tcp |-> 0, rest |-> 0,
     fanout |-> TRUE, websocket_enabled |-> FALSE,
     max_connections |-> 1],
    [hotset_size |-> 2, lru_size |-> 2, batch_size |-> 0,
     allowed_kinds |-> AllowedKinds({DefaultKind}), tcp |-> 0, rest |-> 0,
     fanout |-> TRUE, websocket_enabled |-> FALSE,
     max_connections |-> 0],
    [hotset_size |-> 2, lru_size |-> 2, batch_size |-> 3,
     allowed_kinds |-> AllowedKinds({}), tcp |-> 0, rest |-> 0,
     fanout |-> FALSE, websocket_enabled |-> TRUE,
     max_connections |-> 2] }

InitRouter ==
  /\ SubsEmpty
  /\ evt = {}
  /\ fwd = {}
  /\ succ = {}
  /\ run = 1
  /\ ingested = 0
  /\ cfg \in RouterConfigs
  /\ bloom = StartEngine(cfg, {}, {}).bloom
  /\ lru_cache = StartEngine(cfg, {}, {}).lru
  /\ hot_set = StartEngine(cfg, {}, {}).hot
  /\ warmed = {}
  /\ seen = {}
  /\ pending = <<>>
  /\ pc = "run"
  /\ now = 0
  /\ last_flush = 0
  /\ sleep_start = 0
  /\ downstream = <<>>
  /\ fwd_pos = 0
  /\ write_failed = FALSE
  /\ last_call = NoCall
  /\ last_fwd = NoForward
  /\ last_batch = <<>>
  /\ pending_since = 0
  /\ ingest_open = TRUE
  /\ rx_open = AllOpen
  /\ fanout = <<>>
  /\ fanout_calls = <<>>
  /\ failed_ids = {}
  /\ marks = <<>>
  /\ last_op = NoOp
  /\ TasksIdle

NextRouter ==
  \/ \E id \in EventIds, ok \in BOOLEAN : RouterRecv(id, ok)
  \/ RouterTimeout
  \/ IngestClose
  \/ RouterClose
  \/ Tick
  \/ \E chan \in {"downstream", "fanout"} : DropReceiver(chan)

SpecRouter == InitRouter /\ [][NextRouter]_vars

\* select! takes a ready branch: once the ingest stream is closed, the
\* receive branch is ready in every iteration
\* termination is followed for the router that flushes on every event with
\* fanout configured, and for the router without fanout
InitRouterClose == InitRouter /\ (cfg.batch_size = 0 \/ ~cfg.fanout)

FairSpecRouter ==
  InitRouterClose /\ [][NextRouter]_vars /\ WF_vars(RouterClose)

(* ----------------- the router and the /ws clients ---------------------- *)
\* handle_socket: a client has connected to /ws and its send task starts to
\* read the shared receiver of the downstream channel
WsConnect(c) ==
  /\ UNCHANGED subsVars
  /\ c \notin ws_conn
  /\ ws_conn' = ws_conn \cup {c}
  /\ ws_got' = [ws_got EXCEPT ![c] = <<>>]
  /\ ws_from' = [ws_from EXCEPT ![c] = Len(downstream)]
  /\ last_call' = NoCall
  /\ last_fwd' = NoForward
  /\ last_batch' = <<>>
  /\ last_op' = NoOp
  /\ UNCHANGED <<storeVars, engineVars, cfg, routerVars, now, fwd_pos, run,
                 ingested, histVars, pending_since, chanVars, failed_ids,
                 marks, fwVars, poolVars, dd_tasks, accepted>>

\* handle_socket, the send task of client c: recv_async takes the event at
\* the head of the channel, which is written to the socket of c
WsDeliver(c) ==
  /\ UNCHANGED subsVars
  /\ c \in ws_conn
  /\ fwd_pos < Len(downstream)
  /\ ws_got' = [ws_got EXCEPT ![c] = Append(@, downstream[fwd_pos + 1])]
  /\ fwd_pos' = fwd_pos + 1
  /\ last_call' = NoCall
  /\ last_fwd' = NoForward
  /\ last_batch' = <<>>
  /\ last_op' = NoOp
  /\ UNCHANGED <<storeVars, engineVars, cfg, routerVars, now, run,
                 ingested, histVars, pending_since, chanVars, failed_ids,
                 marks, fwVars, ws_conn, ws_from, poolVars, dd_tasks,
                 accepted>>

\* the run followed: websocket_enabled is true
InitWs == InitRouter /\ cfg.websocket_enabled

NextWs ==
  \/ \E id \in EventIds, ok \in BOOLEAN : RouterRecv(id, ok)
  \/ IngestClose
  \/ RouterClose
  \/ \E c \in WsClients : WsConnect(c)
  \/ \E c \in WsClients : WsDeliver(c)

SpecWs == InitWs /\ [][NextWs]_vars

(* --------------------------- the relay pool ---------------------------- *)
\* connect_and_subscribe(u), the two checks at its head: at the limit or
\* already connected, the call returns Ok without connecting
ConnectCheck(conns, max, u) ==
  IF Cardinality(conns) >= max THEN "done"
  ELSE IF u \in conns THEN "done"
  ELSE "connecting"

\* what the pool actions leave alone
poolFrame ==
  <<storeVars, engineVars, cfg, routerVars, now, fwd_pos, run, ingested,
    histVars, pending_since, last_call, last_fwd, last_batch, chanVars,
    failed_ids, marks, last_op, fwVars, wsVars, dd_tasks, accepted, subsVars>>

\* a task calls connect_and_subscribe(u) and passes or fails the checks
ConnectStart(u) ==
  /\ conn_pc[u] = "idle"
  /\ conn_pc' = [conn_pc EXCEPT ![u] = ConnectCheck(connections,
                                                    cfg.max_connections, u)]
  /\ UNCHANGED <<connections, poolFrame>>

\* the task has awaited add_relay, connect and subscribe: on an error the
\* call returns it, otherwise the connection is inserted in the map
ConnectFinish(u, ok) ==
  /\ conn_pc[u] = "connecting"
  /\ conn_pc' = [conn_pc EXCEPT ![u] = "done"]
  /\ connections' = IF ok THEN connections \cup {u} ELSE connections
  /\ UNCHANGED poolFrame

\* disconnect_relay(u): the connection is removed from the map
DisconnectRelay(u) ==
  /\ u \in connections
  /\ connections' = connections \ {u}
  /\ UNCHANGED <<conn_pc, poolFrame>>

\* connect_and_subscribe is called for u once more
ConnectAgain(u) ==
  /\ conn_pc[u] = "done"
  /\ conn_pc' = [conn_pc EXCEPT ![u] = "idle"]
  /\ UNCHANGED <<connections, poolFrame>>

NextPool ==
  \/ \E u \in RelayUrls : ConnectStart(u)
  \/ \E u \in RelayUrls, ok \in BOOLEAN : ConnectFinish(u, ok)
  \/ \E u \in RelayUrls : DisconnectRelay(u)
  \/ \E u \in RelayUrls : ConnectAgain(u)

SpecPool == InitRouter /\ [][NextPool]_vars

(* -------- is_duplicate called by several tasks at the same time -------- *)
\* the task has finished with result ret
Returned(task, ret) == [pc |-> "done", id |-> task.id, ret |-> ret]

\* the task goes on at position p
At(task, p) == [pc |-> p, id |-> task.id, ret |-> FALSE]

\* one step of a call of is_duplicate: the operation on one layer that the
\* task at task.pc performs next, on the engine state st shared by the
\* tasks; ok is the outcome of the store write. The set of possible results
\* [st, task].
IsDuplicateStep(st, c, task, ok) ==
  LET id == task.id
  IN CASE task.pc = "hot_contains" ->
            {[st |-> st,
              task |-> IF id \in st.hot THEN Returned(task, TRUE)
                       ELSE At(task, "bloom_contains")]}
       [] task.pc = "bloom_contains" ->
            {[st |-> st,
              task |-> IF BloomContains(st.bloom, id)
                       THEN At(task, "lru_contains")
                       ELSE At(task, "fast_bloom_insert")]}
       [] task.pc = "fast_bloom_insert" ->
            {[st |-> [st EXCEPT !.bloom = BloomInsert(st.bloom, id)],
              task |-> At(task, "fast_hot_insert")]}
       [] task.pc = "fast_hot_insert" ->
            {[st |-> [st EXCEPT !.hot = st.hot \cup {id}],
              task |-> Returned(task, FALSE)]}
       [] task.pc = "lru_contains" ->
            {[st |-> st,
              task |-> IF LruContains(st.lru, id)
                       THEN At(task, "dup_hot_insert")
                       ELSE At(task, "store_exists")]}
       [] task.pc = "store_exists" ->
            {[st |-> st,
              task |-> IF Exists(st.evt, id)
                       THEN At(task, "dup_lru_put")
                       ELSE At(task, "new_store_event")]}
       [] task.pc = "dup_lru_put" ->
            {[st |-> [st EXCEPT !.lru = LruPut(st.lru, id, c.lru_size)],
              task |-> At(task, "dup_hot_insert")]}
       [] task.pc = "dup_hot_insert" ->
            {[st |-> [st EXCEPT !.hot = st.hot \cup {id}],
              task |-> Returned(task, TRUE)]}
       [] task.pc = "new_store_event" ->
            {[st |-> [st EXCEPT !.evt = StoreEvent(st.evt, id, ok)],
              task |-> At(task, "new_lru_put")]}
       [] task.pc = "new_lru_put" ->
            {[st |-> [st EXCEPT !.lru = LruPut(st.lru, id, c.lru_size)],
              task |-> At(task, "new_hot_insert")]}
       [] task.pc = "new_hot_insert" ->
            {[st |-> [st EXCEPT !.hot = h], task |-> Returned(task, FALSE)]
             : h \in HotSetAfterInsert(st.hot \cup {id}, HotSetCapacity(c))}
       [] OTHER -> {}

\* what the concurrent calls leave alone
dedupFrame ==
  <<fwd, succ, cfg, routerVars, now, fwd_pos, run, ingested, histVars,
    pending_since, last_call, last_fwd, last_batch, chanVars, failed_ids,
    marks, last_op, fwVars, wsVars, poolVars, accepted, subsVars>>

\* a task calls is_duplicate(event) for the event id
CallBegin(t, id) ==
  /\ dd_tasks[t].pc = "idle"
  /\ dd_tasks' = [dd_tasks EXCEPT
                    ![t] = [pc |-> "hot_contains", id |-> id, ret |-> FALSE]]
  /\ UNCHANGED <<storeVars, engineVars, dedupFrame>>

\* the call of task t performs its next operation
CallStep(t, ok) ==
  /\ \E r \in IsDuplicateStep(EngineState, cfg, dd_tasks[t], ok) :
       /\ bloom' = r.st.bloom
       /\ lru_cache' = r.st.lru
       /\ hot_set' = r.st.hot
       /\ evt' = r.st.evt
       /\ dd_tasks' = [dd_tasks EXCEPT ![t] = r.task]
  /\ UNCHANGED dedupFrame

NextDedup ==
  \/ \E t \in DedupTasks, id \in EventIds : CallBegin(t, id)
  \/ \E t \in DedupTasks, ok \in BOOLEAN : CallStep(t, ok)

\* the engine of a process started over an empty store; each task makes
\* one call
SpecDedup == Init /\ [][NextDedup]_vars

(* ------------- main's choice between the forwarder and /ws ------------- *)
\* the configurations of the output section the process is started with:
\* /ws enabled with an endpoint configured, neither, and a forwarder
WiringConfigs ==
  { [hotset_size |-> 2, lru_size |-> 2, batch_size |-> 1,
     allowed_kinds |-> AllowedKinds({}), tcp |-> 1, rest |-> 0,
     fanout |-> FALSE, websocket_enabled |-> TRUE,
     max_connections |-> 2],
    [hotset_size |-> 2, lru_size |-> 2, batch_size |-> 1,
     allowed_kinds |-> AllowedKinds({}), tcp |-> 0, rest |-> 0,
     fanout |-> FALSE, websocket_enabled |-> FALSE,
     max_connections |-> 2],
    [hotset_size |-> 2, lru_size |-> 2, batch_size |-> 1,
     allowed_kinds |-> AllowedKinds({}), tcp |-> 0, rest |-> 1,
     fanout |-> FALSE, websocket_enabled |-> FALSE,
     max_connections |-> 2] }

\* the stores the process is started over: empty, or left by an earlier
\* process that stored and marked event 1 at time 0
WiringStores ==
  { [evt |-> {}, fwd |-> {}, succ |-> {}],
    [evt |-> {1}, fwd |-> {1}, succ |-> {<<0, 1>>}] }

\* main up to the HTTP server: the store opened, the engine warmed from
\* it, the router spawned, the forwarder spawned or not
InitWiring ==
  /\ SubsEmpty
  /\ \E s \in WiringStores :
       /\ evt = s.evt
       /\ fwd = s.fwd
       /\ succ = s.succ
  /\ run = 1
  /\ ingested = 0
  /\ cfg \in WiringConfigs
  /\ bloom = StartEngine(cfg, evt, succ).bloom
  /\ lru_cache = StartEngine(cfg, evt, succ).lru
  /\ hot_set = StartEngine(cfg, evt, succ).hot
  /\ warmed = Range(LoadRecentSuccessIds(succ, cfg.hotset_size))
  /\ seen = {}
  /\ pending = <<>>
  /\ pc = "run"
  /\ now = 0
  /\ last_flush = 0
  /\ sleep_start = 0
  /\ downstream = <<>>
  /\ fwd_pos = 0
  /\ write_failed = FALSE
  /\ last_call = NoCall
  /\ last_fwd = NoForward
  /\ last_batch = <<>>
  /\ pending_since = 0
  /\ ingest_open = TRUE
  /\ rx_open = AllOpen
  /\ fanout = <<>>
  /\ fanout_calls = <<>>
  /\ failed_ids = {}
  /\ marks = <<>>
  /\ last_op = NoOp
  /\ TasksIdle

NextWiring ==
  \/ \E id \in EventIds, ok \in BOOLEAN : RouterRecv(id, ok)
  \/ IngestClose
  \/ RouterClose
  \/ \E tcp_res \in [1..cfg.tcp -> TaskOutcomes],
        rest_res \in [1..cfg.rest -> TaskOutcomes],
        now_ms \in {0}, ok \in BOOLEAN :
       ForwardEvent(tcp_res, rest_res, now_ms, ok)
  \/ Restart

SpecWiring == InitWiring /\ [][NextWiring]_vars

(* ------- the engine's interface, called over an existing store -------- *)
\* keys the store holds when the engine is built over it
MaxKeys == 2

\* the limits warm_from_db is called with
WarmLimits == {0, 1, 2}

\* the ids marked forwarded by earlier runs, oldest first; the id of a
\* success-index key is any string
MarkedBefore == UNION {[1..n -> {BadId} \cup EventIds] : n \in 0..MaxKeys}

\* the success index those marks left, one mark per millisecond
IndexOf(q) == {<<i - 1, q[i]>> : i \in 1..Len(q)}

InitEngine ==
  /\ SubsEmpty
  /\ evt \in SUBSET EventIds
  /\ \E q \in MarkedBefore :
       /\ Cardinality(evt) + Len(q) <= MaxKeys
       /\ succ = IndexOf(q)
       /\ fwd = Range(q)
  /\ run = 1
  /\ ingested = 0
  /\ cfg \in Configs
  /\ bloom = FreshEngine(evt).bloom
  /\ lru_cache = FreshEngine(evt).lru
  /\ hot_set = FreshEngine(evt).hot
  /\ warmed = {}
  /\ seen = {}
  /\ pending = <<>>
  /\ pc = "run"
  /\ now = 0
  /\ last_flush = 0
  /\ sleep_start = 0
  /\ downstream = <<>>
  /\ fwd_pos = 0
  /\ write_failed = FALSE
  /\ last_call = NoCall
  /\ last_fwd = NoForward
  /\ last_batch = <<>>
  /\ pending_since = 0
  /\ ingest_open = TRUE
  /\ rx_open = AllOpen
  /\ fanout = <<>>
  /\ fanout_calls = <<>>
  /\ failed_ids = {}
  /\ marks = <<>>
  /\ last_op = NoOp
  /\ TasksIdle

\* a call of DeduplicationEngine::warm_from_db(limit)
CallWarmFromDb(limit) ==
  /\ UNCHANGED subsVars
  /\ UNCHANGED auxVars
  /\ LET st == WarmFromDb(EngineState, cfg, succ, limit)
     IN /\ bloom' = st.bloom
        /\ lru_cache' = st.lru
        /\ hot_set' = st.hot
  /\ warmed' = warmed \cup Range(LoadRecentSuccessIds(succ, limit))
  /\ last_call' = NoCall
  /\ last_op' = [op |-> "warm", arg |-> limit]
  /\ UNCHANGED <<storeVars, cfg, routerVars, now, fwd_pos, run, ingested,
                 seen, write_failed, pending_since, last_fwd, last_batch,
                 chanVars, failed_ids, marks>>

\* a call of DeduplicationEngine::is_duplicate(event)
CallIsDuplicate(id, ok) ==
  /\ UNCHANGED subsVars
  /\ UNCHANGED auxVars
  /\ ingested < MaxIngest
  /\ ingested' = ingested + 1
  /\ \E r \in IsDuplicate(EngineState, cfg, id, ok) :
       /\ bloom' = r.bloom
       /\ lru_cache' = r.lru
       /\ hot_set' = r.hot
       /\ evt' = r.evt
       /\ write_failed' = (write_failed \/ r.failed)
       /\ failed_ids' = IF r.failed THEN failed_ids \cup {id} ELSE failed_ids
       /\ last_call' = CallRecord(id, r)
  /\ seen' = seen \cup {id}
  /\ last_op' = NoOp
  /\ UNCHANGED <<fwd, succ, cfg, routerVars, now, fwd_pos, run, warmed,
                 pending_since, last_fwd, last_batch, chanVars, marks>>

NextEngine ==
  \/ \E limit \in WarmLimits : CallWarmFromDb(limit)
  \/ \E id \in EventIds, ok \in BOOLEAN : CallIsDuplicate(id, ok)

SpecEngine == InitEngine /\ [][NextEngine]_vars

(* ------------------- the store's interface ----------------------------- *)
\* successful marks made through the interface
MaxMarks == 2

InitStore ==
  /\ SubsEmpty
  /\ evt = {}
  /\ fwd = {}
  /\ succ = {}
  /\ run = 1
  /\ ingested = 0
  /\ cfg = CHOOSE c \in Configs : c.lru_size = 0  \* the store reads no configuration
  /\ bloom = {}
  /\ lru_cache = <<>>
  /\ hot_set = {}
  /\ warmed = {}
  /\ seen = {}
  /\ pending = <<>>
  /\ pc = "run"
  /\ now = 0
  /\ last_flush = 0
  /\ sleep_start = 0
  /\ downstream = <<>>
  /\ fwd_pos = 0
  /\ write_failed = FALSE
  /\ last_call = NoCall
  /\ last_fwd = NoForward
  /\ last_batch = <<>>
  /\ pending_since = 0
  /\ ingest_open = TRUE
  /\ rx_open = AllOpen
  /\ fanout = <<>>
  /\ fanout_calls = <<>>
  /\ failed_ids = {}
  /\ marks = <<>>
  /\ last_op = NoOp
  /\ TasksIdle

\* a call of RocksDBStore::store_event
CallStoreEvent(id, ok) ==
  /\ UNCHANGED subsVars
  /\ UNCHANGED auxVars
  /\ evt' = StoreEvent(evt, id, ok)
  /\ last_op' = NoOp
  /\ UNCHANGED <<fwd, succ, engineVars, cfg, routerVars, now, fwd_pos, run,
                 ingested, histVars, pending_since, last_call, last_fwd,
                 last_batch, chanVars, failed_ids, marks>>

\* a call of RocksDBStore::delete_event
CallDeleteEvent(id, ok) ==
  /\ UNCHANGED subsVars
  /\ UNCHANGED auxVars
  /\ LET st == DeleteEvent([evt |-> evt, fwd |-> fwd, succ |-> succ], id, ok)
     IN /\ evt' = st.evt
        /\ fwd' = st.fwd
        /\ succ' = st.succ
  /\ last_op' = [op |-> "delete", arg |-> id]
  /\ UNCHANGED <<engineVars, cfg, routerVars, now, fwd_pos, run,
                 ingested, histVars, pending_since, last_call, last_fwd,
                 last_batch, chanVars, failed_ids, marks>>

\* a call of RocksDBStore::mark_forward_success at wall-clock time now_ms
CallMarkForwardSuccess(id, now_ms, ok) ==
  /\ UNCHANGED subsVars
  /\ UNCHANGED auxVars
  /\ Len(marks) < MaxMarks
  /\ LET m == MarkForwardSuccess([fwd |-> fwd, succ |-> succ], id, now_ms, ok)
     IN /\ fwd' = m.fwd
        /\ succ' = m.succ
  /\ marks' = IF ok THEN Append(marks, <<now_ms, id>>) ELSE marks
  /\ last_op' = NoOp
  /\ UNCHANGED <<evt, engineVars, cfg, routerVars, now, fwd_pos, run,
                 ingested, histVars, pending_since, last_call, last_fwd,
                 last_batch, chanVars, failed_ids>>

\* the process ends and RocksDBStore::new opens the same database again
CallReopen ==
  /\ UNCHANGED subsVars
  /\ UNCHANGED auxVars
  /\ run < MaxRuns
  /\ run' = run + 1
  /\ last_op' = [op |-> "open", arg |-> BadId]
  /\ UNCHANGED <<storeVars, engineVars, cfg, routerVars, now, fwd_pos,
                 ingested, histVars, pending_since, last_call, last_fwd,
                 last_batch, chanVars, failed_ids, marks>>

\* the limits load_recent_success_ids is called with
LoadLimits == 0..(MaxMarks + 1)

\* a call of RocksDBStore::load_recent_success_ids
CallLoadRecentSuccessIds(limit) ==
  /\ UNCHANGED subsVars
  /\ UNCHANGED auxVars
  /\ last_op' = [op |-> "load", arg |-> limit,
                 out |-> LoadRecentScan(evt, fwd, succ, limit)]
  /\ UNCHANGED <<storeVars, engineVars, cfg, routerVars, now, fwd_pos, run,
                 ingested, histVars, pending_since, last_call, last_fwd,
                 last_batch, chanVars, failed_ids, marks>>

NextStore ==
  \/ \E id \in EventIds, ok \in BOOLEAN : CallStoreEvent(id, ok)
  \/ \E id \in EventIds, ok \in BOOLEAN : CallDeleteEvent(id, ok)
  \/ \E id \in EventIds \cup {BadId}, now_ms \in 0..MaxClock, ok \in BOOLEAN :
       CallMarkForwardSuccess(id, now_ms, ok)
  \/ CallReopen

SpecStore == InitStore /\ [][NextStore]_vars

\* the store as the warm-up reads it: events are stored and marked, and the
\* success index is scanned
NextScan ==
  \/ \E id \in EventIds, ok \in BOOLEAN : CallStoreEvent(id, ok)
  \/ \E id \in EventIds \cup {BadId}, now_ms \in 0..MaxClock, ok \in BOOLEAN :
       CallMarkForwardSuccess(id, now_ms, ok)
  \/ \E limit \in LoadLimits : CallLoadRecentSuccessIds(limit)

SpecScan == InitStore /\ [][NextScan]_vars

(* ------------- the subscription service's interface -------------------- *)
\* the values the calls are made with
BotKeys == {"bp", "bq"}

Followers == {"f1", "f2"}

Secrets == {"s1", "s2"}

\* (nostr_pubkey, eth_address, name) a bot registers with
BotProfiles == {<<"n1", "e1", "a">>, <<"n2", "e2", "b">>, <<"n2", "e1", "b">>}

\* rows of the subscriptions table followed
MaxSubscriptions == 3

PlatformKeys == {"k1", "k2"}

\* rotation announcements followed
MaxBroadcasts == 2

\* everything but the database of the subscription service
coreVars ==
  <<storeVars, engineVars, cfg, routerVars, now, fwd_pos, run, ingested,
    histVars, pending_since, last_call, last_fwd, last_batch, chanVars,
    failed_ids, marks, last_op, auxVars>>

\* the service over a freshly initialised database
InitSubs == InitRouter /\ cfg.fanout /\ cfg.batch_size # 0

\* a call of SubscriptionService::register_bot
CallRegisterBot(bot, nostr, eth, name, ok) ==
  /\ LET r == RegisterBot(bots, bot, nostr, eth, name, ok)
     IN /\ bots' = r.bots
        /\ last_sub' = [op |-> "register_bot", up |-> ok, ok |-> r.ok,
                        arg |-> <<bot, nostr, eth, name>>, out |-> <<>>]
  /\ UNCHANGED <<subscriptions, platform_state, broadcasts, coreVars>>

\* a call of SubscriptionService::add_subscription
CallAddSubscription(bot, follower, secret, ok) ==
  /\ LET r == AddSubscription(bots, subscriptions, bot, follower, secret, ok)
     IN /\ Len(r.subscriptions) <= MaxSubscriptions
        /\ subscriptions' = r.subscriptions
        /\ last_sub' = [op |-> "add_subscription", up |-> ok, ok |-> r.ok,
                        arg |-> <<bot, follower, secret>>, out |-> <<>>]
  /\ UNCHANGED <<bots, platform_state, broadcasts, coreVars>>

\* a call of SubscriptionService::fanout_for_event
CallFanoutForEvent(id, ok) ==
  /\ \E nonces \in [1..Len(ListSubscriptions(subscriptions, PubkeyOf(id)))
                     -> Nonces] :
       LET r == FanoutMessages(subscriptions, id, ok, nonces)
       IN last_sub' = [op |-> "fanout_for_event", up |-> ok, ok |-> r.ok,
                       arg |-> <<id>>, out |-> r.msgs]
  /\ UNCHANGED <<bots, subscriptions, platform_state, broadcasts, coreVars>>

\* a call of SubscriptionService::ensure_platform_pubkey
CallEnsurePlatformPubkey(p, client, keys, ok) ==
  /\ Len(broadcasts) < MaxBroadcasts
  /\ LET r == EnsurePlatformPubkey(platform_state, p, client, keys, ok)
     IN /\ platform_state' = r.stored
        /\ broadcasts' = broadcasts \o r.announced
        /\ last_sub' = [op |-> "ensure_platform_pubkey", up |-> ok,
                        ok |-> r.ok,
                        arg |-> <<p, client, keys>>, out |-> r.announced]
  /\ UNCHANGED <<bots, subscriptions, coreVars>>

NextSubs ==
  \/ \E bot \in BotKeys, b \in BotProfiles, ok \in BOOLEAN :
       CallRegisterBot(bot, b[1], b[2], b[3], ok)
  \/ \E bot \in BotKeys, follower \in Followers, secret \in Secrets,
        ok \in BOOLEAN :
       CallAddSubscription(bot, follower, secret, ok)
  \/ \E id \in EventIds, ok \in BOOLEAN : CallFanoutForEvent(id, ok)

SpecSubs == InitSubs /\ [][NextSubs]_vars

NextPlatform ==
  \E p \in PlatformKeys, client \in BOOLEAN, keys \in BOOLEAN, ok \in BOOLEAN :
    CallEnsurePlatformPubkey(p, client, keys, ok)

SpecPlatform == InitSubs /\ [][NextPlatform]_vars

(* ------------------------------ claims --------------------------------- *)
\* the ids of the success-index keys of the store
SuccIds == {k[2] : k \in succ}

\* C1: within one process lifetime, with every store write succeeding, no
\* event id is sent on the downstream channel more than once.
C1_SentAtMostOnce ==
  ~write_failed =>
    \A i, j \in 1..Len(downstream) : i # j => downstream[i] # downstream[j]

\* C2: when is_duplicate returns false and the store write did not fail,
\* the key evt:{id} is in the store when the call returns.
C2_FalseImpliesStored ==
  (last_call.path # "none" /\ ~last_call.ret /\ ~last_call.failed)
    => last_call.evt_after

\* C3: is_duplicate returns true for every event whose evt: key is already
\* in the store, also in a process freshly started over that store.
C3_StoredImpliesDuplicate ==
  (last_call.path # "none" /\ last_call.evt_before) => last_call.ret

\* C4: an event whose succ: entry was loaded by the warm-up of this run is
\* never sent on the downstream channel during this run.
C4_WarmedNeverSent ==
  ~write_failed => warmed \cap Range(downstream) = {}

\* C7: every id held by the hot set or the LRU has been written to the
\* store (as an evt: record or as a fwd:/succ: mark).
C7_MemoryWithinStore ==
  (hot_set \cup Range(lru_cache)) \subseteq (evt \cup fwd \cup SuccIds)

\* C8: the forwarder calls mark_forward_success for an event exactly when
\* every forward attempted for it succeeded, and a forward that did not
\* succeed leaves the event's forward-success flag unset.
C8_MarkIffAllSucceeded ==
  last_fwd.id # BadId =>
    /\ last_fwd.mark_called <=> last_fwd.all_succeeded
    /\ ~last_fwd.all_succeeded => ~IsForwardSuccess(fwd, last_fwd.id)

\* C10: while the router runs, no event waits in the pending buffer for
\* more than max_latency, whatever arrives on the ingest stream meanwhile.
C10_BoundedLatency ==
  (pc = "run" /\ pending # <<>>) => now - pending_since <= max_latency

\* C5: is_duplicate never returns true for an id that was neither passed
\* to it earlier in this process, nor loaded by warm-up, nor present under
\* evt: in the store; such an id that the bloom filter answers positively
\* for (a false positive) is classified as new and is stored.
C5_UnknownIsNew ==
  (last_call.path # "none" /\ ~last_call.known /\ ~last_call.evt_before)
    => /\ ~last_call.ret
       /\ (last_call.bloom_before /\ ~last_call.failed) => last_call.evt_after

\* a never-seen id, positive in the bloom filter, was classified as new and
\* written to the store
C5_Witness ==
  /\ last_call.path = "new"
  /\ ~last_call.known
  /\ last_call.bloom_before
  /\ ~last_call.ret
  /\ last_call.evt_after

\* the bloom filter holds the id: the id decodes to 32 bytes and contains()
\* answers true for them
InBloom(id) == Decodes(id) /\ BloomContains(bloom, id)

\* C6 as stated: every id in the LRU or in the hot set is in the bloom
\* filter, also after warm-up over success-index entries that do not decode.
C6_CachesWithinBloom ==
  \A id \in hot_set \cup Range(lru_cache) : InBloom(id)

\* C6 as amended: every id in the LRU or in the hot set that decodes as a
\* 32-byte event id is in the bloom filter.
C6_DecodableCachesWithinBloom ==
  \A id \in hot_set \cup Range(lru_cache) : Decodes(id) => InBloom(id)

\* warm-up has loaded an id that decodes and one that does not, and
\* is_duplicate has put a further id into the caches
C6_Witness ==
  /\ BadId \in warmed \cap hot_set
  /\ \E id \in warmed \cap hot_set : Decodes(id)
  /\ \E id \in (seen \cap Range(lru_cache)) \ warmed : id \in hot_set

\* C9: for every id, the key fwd:{id} exists exactly when some key
\* succ:{ts}:{id} exists.
C9_FwdIffSucc == \A id \in EventIds \cup {BadId} : id \in fwd <=> id \in SuccIds

\* an event marked twice, at two times, whose evt: record is not in the
\* store, next to a stored event that was never marked
C9_Witness ==
  /\ \E id \in fwd : Cardinality({k \in succ : k[2] = id}) >= 2 /\ id \notin evt
  /\ \E id \in evt : id \notin fwd


\* a sequence of events in non-decreasing created_at order
IsAscending(s) ==
  \A i \in 1..(Len(s) - 1) : CreatedAt(s[i]) <= CreatedAt(s[i + 1])

\* the last n elements of the sequence s
LastN(s, n) == SubSeq(s, Len(s) - n + 1, Len(s))

\* the number of occurrences of x in the sequence s
Count(s, x) == Cardinality({i \in 1..Len(s) : s[i] = x})

\* s and t hold the same events, each as often
SameEvents(s, t) ==
  /\ Len(s) = Len(t)
  /\ \A x \in Range(s) \cup Range(t) : Count(s, x) = Count(t, x)

\* C11: every batch the router emits, by size, by timer or at closure, is
\* in non-decreasing created_at order, and is what the downstream channel
\* received last.
C11_BatchAscending ==
  /\ IsAscending(last_batch)
  /\ rx_open.downstream =>
       /\ Len(last_batch) <= Len(downstream)
       /\ LastN(downstream, Len(last_batch)) = last_batch

\* a batch of at least two events with different timestamps was emitted by
\* the running loop
C11_Witness ==
  /\ pc = "run"
  /\ Len(last_batch) >= 2
  /\ CreatedAt(last_batch[1]) < CreatedAt(last_batch[Len(last_batch)])
  /\ LastN(downstream, Len(last_batch)) = last_batch

\* C12: when process_stream ends, every event of the pending buffer has
\* been sent on the (open) downstream channel, in ascending created_at
\* order, the buffer is empty, and the result is Ok.
C12_CloseFlushesAll ==
  [][(pc = "run" /\ pc' # "run" /\ rx_open.downstream) =>
       /\ pc' = "done"
       /\ pending' = <<>>
       /\ Len(downstream') = Len(downstream) + Len(pending)
       /\ SameEvents(LastN(downstream', Len(pending)), pending)
       /\ IsAscending(LastN(downstream', Len(pending)))]_vars

\* the stream closed over a buffer of more than batch_size events, at least
\* two, that were not in timestamp order, and all were sent
C12_Witness ==
  /\ pc = "done"
  /\ rx_open.downstream
  /\ Len(last_batch) >= 2
  /\ Len(last_batch) > cfg.batch_size
  /\ CreatedAt(last_batch[1]) < CreatedAt(last_batch[Len(last_batch)])
  /\ LastN(downstream, Len(last_batch)) = last_batch

OutsideAllowlist(c, id) ==
  c.allowed_kinds.some /\ KindOf(id) \notin c.allowed_kinds.kinds

\* C14: an event whose kind is outside a configured, non-empty allowlist is
\* dropped before is_duplicate is called: store, dedup layers, buffer and
\* channels stay as they are and the event is never buffered or emitted;
\* without an allowlist (none, or an empty list) every received event is
\* passed to is_duplicate.
C14_KindAllowlist ==
  /\ [](/\ ~AllowedKinds({}).some
        /\ \A id \in Range(pending) \cup Range(downstream) :
             ~OutsideAllowlist(cfg, id))
  /\ [][last_op'.op = "recv" =>
          IF OutsideAllowlist(cfg, last_op'.arg)
          THEN /\ last_call' = NoCall
               /\ UNCHANGED <<storeVars, engineVars, pending, downstream,
                              fanout, fanout_calls, seen>>
          ELSE /\ last_call'.id = last_op'.arg
               /\ last_call'.path # "none"
               /\ last_op'.arg \in seen']_vars

\* an event of a kind outside the allowlist was received and dropped while
\* another event was waiting in the buffer
C14_Witness ==
  /\ last_op.op = "recv"
  /\ OutsideAllowlist(cfg, last_op.arg)
  /\ last_call = NoCall
  /\ pending # <<>>


\* C15: with the downstream channel open, every message on the fanout
\* channel was sent after the downstream send of the event before its own
\* event and before the downstream send of its own event, and the fanout
\* channel holds the messages in the order of their events.
C15_FanoutPrecedesEvent ==
  rx_open.downstream =>
    /\ \A i \in 1..Len(fanout) :
         /\ fanout[i].at < Len(downstream)
         /\ downstream[fanout[i].at + 1] = fanout[i].msg.original_event_id
    /\ \A i, j \in 1..Len(fanout) : i < j => fanout[i].at <= fanout[j].at

\* a batch of two events was emitted, and the followers of the second got
\* their messages between the two downstream sends
C15_Witness ==
  /\ rx_open.downstream
  /\ Len(last_batch) >= 2
  /\ \E i \in 1..Len(fanout) :
       /\ fanout[i].at = Len(downstream) - 1
       /\ fanout[i].msg.original_event_id = last_batch[Len(last_batch)]
  /\ \E i \in 1..Len(fanout) : fanout[i].at = Len(downstream) - 2

\* the messages of the k-th event sent downstream are on the fanout channel
FannedOut(k) ==
  \E j \in 1..Len(fanout_calls) :
    /\ fanout_calls[j].id = downstream[k]
    /\ fanout_calls[j].at = k - 1
    /\ fanout_calls[j].ok =>
         \A r \in Range(ListSubscriptions(SubscriptionRows,
                                          PubkeyOf(downstream[k]))) :
           \E i \in 1..Len(fanout) :
             /\ fanout[i].at = k - 1
             /\ fanout[i].msg.original_event_id = downstream[k]
             /\ fanout[i].msg.target_pubkey = r[2]

\* C16: with fanout configured and both channels open, fanout_for_event was
\* called for every event sent on the downstream channel, and its messages
\* were sent on the fanout channel.
C16_EveryEventFannedOut ==
  (cfg.fanout /\ rx_open.fanout /\ rx_open.downstream) =>
    \A k \in 1..Len(downstream) : FannedOut(k)


\* the ids marked, in the order of the marks
MarkedIds == [i \in 1..Len(marks) |-> marks[i][2]]

\* the marks were made for distinct events
DistinctMarks ==
  \A i, j \in 1..Len(marks) : i # j => marks[i][2] # marks[j][2]

\* each mark read a later millisecond than the mark before it
IncreasingMarks ==
  \A i, j \in 1..Len(marks) : i < j => marks[i][1] < marks[j][1]

\* the sequence s from its last element to its first
Reverse(s) == [i \in 1..Len(s) |-> s[Len(s) + 1 - i]]

\* C17 as stated: after marks of distinct events, whatever the clock read,
\* load_recent_success_ids(n) returns the ids in reverse order of marking.
C17_ReverseMarkOrder ==
  DistinctMarks =>
    LoadRecentSuccessIds(succ, Len(marks)) = Reverse(MarkedIds)

\* C17 as amended: after marks of distinct events, load_recent_success_ids(n)
\* returns each of the n ids once; when every mark read a later millisecond
\* than the one before, they come in reverse order of marking.
C17_ReverseOrderOfIncreasingMarks ==
  DistinctMarks =>
    /\ SameEvents(LoadRecentSuccessIds(succ, Len(marks)), MarkedIds)
    /\ IncreasingMarks =>
         LoadRecentSuccessIds(succ, Len(marks)) = Reverse(MarkedIds)

\* two events were marked at successive milliseconds, the one with the
\* greater id first, next to a stored event
C17_Witness ==
  /\ Len(marks) >= 2
  /\ DistinctMarks
  /\ IncreasingMarks
  /\ marks[1][2] > marks[2][2]
  /\ evt # {}


(* ------------------------------ C18 ------------------------------------ *)
\* C18: once the store write for an event id has failed on the new-event
\* path, every later is_duplicate call for that id in the same process
\* returns true, whatever was processed in between.  A call for an id in
\* failed_ids that did not itself fail is such a later call.
C18_FailedIdStaysDuplicate ==
  (last_call.path # "none" /\ last_call.id \in failed_ids /\ ~last_call.failed)
    => last_call.ret


(* ------------------------------ C19 ------------------------------------ *)
\* C19: after any step in which the engine inserted into the hot set (a
\* bloom-negative new event, an LRU hit, a store hit, a stored new event or
\* a warm-up), the hot set holds strictly fewer than its capacity H >= 1.
C19_HotSetBelowCapacity ==
  (/\ HotSetCapacity(cfg) >= 1
   /\ \/ last_call.path \in {"bloom", "lru", "store", "new"}
      \/ last_op.op = "warm")
    => Cardinality(hot_set) < HotSetCapacity(cfg)


(* ------------------------------ C20 ------------------------------------ *)
\* the ids of the limit most recent success-index entries
RecentIds(limit) == Range(LoadRecentSuccessIds(succ, limit))

\* C20: after warm_from_db(limit) with limit > 0, the id of each of the
\* limit most recent success-index entries is in the hot set, and in the
\* bloom filter when it decodes, so that is_duplicate for it returns true
\* from the hot set without touching the store; warm_from_db(0) changes
\* neither the engine nor the store.
C20_WarmedIdsAreHot ==
  /\ []((last_op.op = "warm" /\ last_op.arg > 0) =>
          \A id \in RecentIds(last_op.arg) :
            /\ id \in hot_set
            /\ Decodes(id) =>
                 /\ BloomContains(bloom, id)
                 /\ \A ok \in BOOLEAN :
                      \A r \in IsDuplicate(EngineState, cfg, id, ok) :
                        r.ret /\ r.path = "hot" /\ r.evt = evt)
  /\ [][(last_op'.op = "warm" /\ last_op'.arg = 0) =>
          UNCHANGED <<engineVars, storeVars>>]_vars

\* a warm-up of a fresh engine with a limit below the number of entries:
\* exactly the most recent ids are hot, and one of them decodes
C20_Witness ==
  /\ last_op.op = "warm"
  /\ last_op.arg > 0
  /\ Cardinality(succ) > last_op.arg
  /\ hot_set = RecentIds(last_op.arg)
  /\ hot_set # Range(LoadRecentSuccessIds(succ, Cardinality(succ)))
  /\ \E id \in hot_set : Decodes(id)


(* ------------------------------ C21 ------------------------------------ *)
\* C21: once mark_forward_success(E) has returned success,
\* is_forward_success(E) is true in every later state, also after the store
\* is opened again; no store operation removes a fwd: or succ: key, and
\* delete_event(E) changes nothing but evt:E.
C21_FlagIsPermanent ==
  /\ [](\A i \in 1..Len(marks) : IsForwardSuccess(fwd, marks[i][2]))
  /\ [][/\ fwd \subseteq fwd'
        /\ succ \subseteq succ'
        /\ last_op'.op = "delete" =>
             /\ fwd' = fwd
             /\ succ' = succ
             /\ evt' \cup {last_op'.arg} = evt \cup {last_op'.arg}]_vars

\* evt:E has just been deleted, in a later run than the first, and E is
\* still flagged and indexed
C21_Witness ==
  /\ last_op.op = "delete"
  /\ run > 1
  /\ last_op.arg \notin evt
  /\ \E i \in 1..Len(marks) : marks[i][2] = last_op.arg
  /\ IsForwardSuccess(fwd, last_op.arg)
  /\ last_op.arg \in SuccIds


(* ------------------------------ C22 ------------------------------------ *)
\* the positions of the subscription rows of the bot that emitted the event
RowsOfBot(id) ==
  {i \in 1..Len(subscriptions) : subscriptions[i][1] = PubkeyOf(id)}

\* C22: a fanout_for_event(E) that returns Ok returns one message for each
\* subscription row of the bot E.pubkey and no other message, each with the
\* row's follower as target_pubkey, E.pubkey as bot_pubkey, E.kind as kind
\* and E.id as original_event_id; without subscribers the list is empty.
C22_OneMessagePerSubscriber ==
  (last_sub.op = "fanout_for_event" /\ last_sub.ok) =>
    LET id == last_sub.arg[1]
        msgs == last_sub.out
    IN /\ Len(msgs) = Cardinality(RowsOfBot(id))
       /\ \A i \in RowsOfBot(id) :
            Cardinality({j \in 1..Len(msgs) :
                           msgs[j].target_pubkey = subscriptions[i][2]}) = 1
       /\ \A j \in 1..Len(msgs) :
            /\ msgs[j].bot_pubkey = PubkeyOf(id)
            /\ msgs[j].kind = KindOf(id)
            /\ msgs[j].original_event_id = id
       /\ RowsOfBot(id) = {} => msgs = <<>>

\* an event of a bot with two followers, while another bot has a follower
C22_Witness ==
  /\ last_sub.op = "fanout_for_event"
  /\ last_sub.ok
  /\ Len(last_sub.out) = 2
  /\ \E i \in 1..Len(subscriptions) :
       subscriptions[i][1] # PubkeyOf(last_sub.arg[1])


(* ------------------------------ C23 ------------------------------------ *)
\* the subscription row a fanout message was made for
RowOfMessage(m) ==
  CHOOSE i \in 1..Len(subscriptions) :
    subscriptions[i][1] = m.bot_pubkey /\ subscriptions[i][2] = m.target_pubkey

\* the payload decrypts to the content under this secret
Opens(payload, secret, id) ==
  DecryptPayload(payload, secret) = [ok |-> TRUE, plain |-> ContentOf(id)]

\* C23 as stated: every message made from event E for a subscriber with
\* secret K decrypts (base64 reversed, first 12 bytes the nonce, key
\* SHA-256(K), no associated data) to exactly E.content, and does not under
\* the secret of any other subscriber.
C23_PayloadRoundTrip ==
  (last_sub.op = "fanout_for_event" /\ last_sub.ok) =>
    \A j \in 1..Len(last_sub.out) :
      LET m == last_sub.out[j]
          id == last_sub.arg[1]
      IN /\ Opens(m.payload, subscriptions[RowOfMessage(m)][3], id)
         /\ \A i \in 1..Len(subscriptions) :
              i # RowOfMessage(m) => ~Opens(m.payload, subscriptions[i][3], id)

\* C23, amended: every message made from event E for a subscriber with
\* secret K decrypts to exactly E.content under K, and under no secret
\* different from K.
C23_RoundTripUnderOwnSecret ==
  (last_sub.op = "fanout_for_event" /\ last_sub.ok) =>
    \A j \in 1..Len(last_sub.out) :
      LET m == last_sub.out[j]
          id == last_sub.arg[1]
          K == subscriptions[RowOfMessage(m)][3]
      IN /\ Opens(m.payload, K, id)
         /\ \A s \in Secrets \ {K} : ~Opens(m.payload, s, id)

\* an event with content, fanned out to two followers with different secrets
C23_Witness ==
  /\ last_sub.op = "fanout_for_event"
  /\ last_sub.ok
  /\ Len(last_sub.out) = 2
  /\ ContentOf(last_sub.arg[1]) # <<>>
  /\ subscriptions[RowOfMessage(last_sub.out[1])][3]
       # subscriptions[RowOfMessage(last_sub.out[2])][3]
  /\ last_sub.out[1].payload # last_sub.out[2].payload


(* ------------------------------ C24 ------------------------------------ *)
\* C24: an ensure_platform_pubkey(p, broadcaster) that returns Ok leaves
\* platform_state alone and announces nothing when the stored pubkey is p;
\* otherwise the stored pubkey becomes p and, with a broadcaster (client and
\* keys) supplied, exactly one announcement is made, with new_pubkey = p
\* and previous_pubkey = the value stored before.  A second call with the
\* same p right after such a call announces nothing.
C24_RotationAnnouncedOnce ==
  [][(last_sub'.op = "ensure_platform_pubkey" /\ last_sub'.ok) =>
       LET p == last_sub'.arg[1]
           supplied == last_sub'.arg[2] /\ last_sub'.arg[3]
       IN /\ platform_state = SomeKey(p) =>
               /\ platform_state' = platform_state
               /\ broadcasts' = broadcasts
          /\ platform_state # SomeKey(p) =>
               /\ platform_state' = SomeKey(p)
               /\ broadcasts' =
                    IF supplied
                    THEN Append(broadcasts,
                                [new_pubkey |-> p,
                                 previous_pubkey |-> platform_state])
                    ELSE broadcasts
          /\ (/\ last_sub.op = "ensure_platform_pubkey"
              /\ last_sub.ok
              /\ last_sub.arg[1] = p) => broadcasts' = broadcasts]_vars

\* a rotation from one stored pubkey to another has just been announced,
\* after the first pubkey was announced with nothing stored before
C24_Witness ==
  /\ last_sub.op = "ensure_platform_pubkey"
  /\ last_sub.ok
  /\ Len(last_sub.out) = 1
  /\ Len(broadcasts) = 2
  /\ ~broadcasts[1].previous_pubkey.some
  /\ broadcasts[2].previous_pubkey = SomeKey(broadcasts[1].new_pubkey)
  /\ platform_state = SomeKey(broadcasts[2].new_pubkey)
  /\ broadcasts[2].new_pubkey # broadcasts[1].new_pubkey


(* ------------------------------ C25 ------------------------------------ *)
\* the bots table has one row per bot_pubkey at most, the subscriptions
\* table one row per (bot_pubkey, follower_pubkey) at most
UniqueRows ==
  /\ \A i, j \in 1..Len(bots) :
       bots[i].bot_pubkey = bots[j].bot_pubkey => i = j
  /\ \A i, j \in 1..Len(subscriptions) :
       (/\ subscriptions[i][1] = subscriptions[j][1]
        /\ subscriptions[i][2] = subscriptions[j][2]) => i = j

\* the row of the bot holds the values of the register_bot call just made
BotRowIsLatest ==
  \A i \in 1..Len(bots) :
    bots[i].bot_pubkey = last_sub.arg[1] =>
      bots[i] = [bot_pubkey |-> last_sub.arg[1],
                 nostr_pubkey |-> last_sub.arg[2],
                 eth_address |-> last_sub.arg[3],
                 name |-> last_sub.arg[4]]

\* the row of the pair holds the secret of the add_subscription just made
SecretIsLatest ==
  \A i \in 1..Len(subscriptions) :
    (/\ subscriptions[i][1] = last_sub.arg[1]
     /\ subscriptions[i][2] = last_sub.arg[2]) =>
      subscriptions[i][3] = last_sub.arg[3]

\* C25 as stated: after any sequence of register_bot and add_subscription
\* calls the rows are unique per key, the row of a bot registered again
\* holds the latest name, nostr_pubkey and eth_address, and the row of a
\* pair subscribed again holds the latest shared_secret.
C25_UpsertsReplace ==
  /\ UniqueRows
  /\ (last_sub.op = "register_bot" /\ last_sub.up) => BotRowIsLatest
  /\ (last_sub.op = "add_subscription" /\ last_sub.up) => SecretIsLatest

\* C25, amended: the rows are unique per key; after a register_bot that
\* returned Ok the row of the bot holds the values of the call, and after
\* an add_subscription that returned Ok the row of the pair holds the
\* secret of the call.  A call that returns Err changes no row.
C25_SuccessfulUpsertsReplace ==
  /\ UniqueRows
  /\ (last_sub.op = "register_bot" /\ last_sub.ok) =>
       /\ BotRowIsLatest
       /\ \E i \in 1..Len(bots) : bots[i].bot_pubkey = last_sub.arg[1]
  /\ (last_sub.op = "add_subscription" /\ last_sub.ok) =>
       /\ SecretIsLatest
       /\ \E i \in 1..Len(subscriptions) :
            /\ subscriptions[i][1] = last_sub.arg[1]
            /\ subscriptions[i][2] = last_sub.arg[2]

\* the bot registered first has just been registered again, with another
\* eth_address, after a second bot was registered
C25_Witness ==
  /\ last_sub.op = "register_bot"
  /\ last_sub.ok
  /\ Len(bots) = 2
  /\ bots[1].bot_pubkey = last_sub.arg[1]
  /\ bots[1].eth_address = last_sub.arg[3]
  /\ bots[1].nostr_pubkey = "n2"
  /\ Len(subscriptions) > 0


(* ------------------------------ C26 ------------------------------------ *)
\* C26: when the timer branch runs while the pending buffer is empty, no
\* flush is made (last_flush keeps its value), nothing is sent on either
\* channel, fanout_for_event is not called, the buffer, the deduplication
\* layers and the store are unchanged, and the router keeps running.
C26_IdleTimerDoesNothing ==
  [][(last_op'.op = "timeout" /\ pending = <<>>) =>
       /\ pending' = <<>>
       /\ last_batch' = <<>>
       /\ last_flush' = last_flush
       /\ UNCHANGED <<downstream, fanout, fanout_calls>>
       /\ UNCHANGED <<engineVars, storeVars>>
       /\ pc' = "run"]_vars

\* the timer branch has just run on an empty buffer, after earlier events
\* were flushed, with the last flush max_latency or more ago
C26_Witness ==
  /\ last_op.op = "timeout"
  /\ pending = <<>>
  /\ last_batch = <<>>
  /\ downstream # <<>>
  /\ now - last_flush >= max_latency
  /\ pc = "run"


(* ------------------------------ C27 ------------------------------------ *)
\* C27: an is_duplicate call for an id that is not in the hot set and that
\* the bloom filter does not contain inserts the id into the bloom filter
\* and the hot set, returns false, and leaves the LRU and the store as they
\* were.
C27_BloomMissIsNew ==
  [][(/\ last_call'.path # "none"
      /\ last_call'.id \notin hot_set
      /\ ~BloomContains(bloom, last_call'.id)) =>
       /\ ~last_call'.ret
       /\ BloomContains(bloom', last_call'.id)
       /\ bloom \subseteq bloom'
       /\ hot_set' = hot_set \cup {last_call'.id}
       /\ lru_cache' = lru_cache
       /\ UNCHANGED storeVars]_vars

\* a call that took the bloom-negative step over a store and an LRU that
\* hold other ids
C27_Witness ==
  /\ last_call.path = "bloom"
  /\ ~last_call.bloom_before
  /\ ~last_call.ret
  /\ last_call.id \in hot_set
  /\ BloomContains(bloom, last_call.id)
  /\ last_call.id \notin evt
  /\ ~LruContains(lru_cache, last_call.id)
  /\ lru_cache # <<>>
  /\ evt # {}


(* ------------------------------ C28 ------------------------------------ *)
\* the buffer flush_batch finds in this step: the pending events and the
\* event just accepted, if any
BufferAtFlush ==
  IF last_op'.op = "recv" /\ last_call'.path # "none" /\ ~last_call'.ret
  THEN Append(pending, last_op'.arg)
  ELSE pending

AfterPut(l, id, K) ==
  LET Other(x) == x # id
  IN IF \E i \in 1..Len(l) : l[i] = id
     THEN <<id>> \o SelectSeq(l, Other)
     ELSE IF Len(l) < K
     THEN <<id>> \o l
     ELSE <<id>> \o SubSeq(l, 1, K - 1)

RECURSIVE AfterPuts(_, _, _)
AfterPuts(l, ids, K) ==
  IF ids = <<>> THEN l
  ELSE AfterPuts(AfterPut(l, Head(ids), K), Tail(ids), K)

\* C29: the LRU never holds more than K = max(lru_size, 1) entries, nor an
\* id twice; a put of a new id at capacity evicts the least recently put
\* id, a put of a present id moves it to the front without growing the
\* cache, and a call that only asks contains leaves the cache as it was.
C29_LruBounded ==
  /\ [](/\ Len(lru_cache) <= Max(cfg.lru_size, 1)
        /\ \A i, j \in 1..Len(lru_cache) :
             lru_cache[i] = lru_cache[j] => i = j)
  /\ [][LET K == Max(cfg.lru_size, 1)
        IN /\ last_call'.path \in {"store", "new"} =>
                lru_cache' = AfterPut(lru_cache, last_call'.id, K)
           /\ last_call'.path \in {"hot", "bloom", "lru"} =>
                lru_cache' = lru_cache
           /\ last_op'.op = "warm" =>
                lru_cache' =
                  AfterPuts(lru_cache,
                            LoadRecentSuccessIds(succ, last_op'.arg), K)]_vars

\* a put by is_duplicate into a full cache from which an id loaded by the
\* warm-up has been evicted
C29_Witness ==
  /\ last_call.path \in {"store", "new"}
  /\ Len(lru_cache) = Max(cfg.lru_size, 1)
  /\ Len(lru_cache) > 1
  /\ lru_cache[1] = last_call.id
  /\ \E id \in warmed : ~LruContains(lru_cache, id)


(* ------------------------------ C30 ------------------------------------ *)
\* C30: load_recent_success_ids(limit) returns min(limit, number of succ:
\* keys) ids, each the id part of a succ: key of its own and none taken
\* from an evt: or fwd: key, however many of those the store holds;
\* limit = 0 returns the empty list.
C30_LoadsOnlySuccKeys ==
  last_op.op = "load" =>
    /\ Len(last_op.out) = Min(last_op.arg, Cardinality(succ))
    /\ \A id \in Range(last_op.out) :
         Count(last_op.out, id) <= Cardinality({k \in succ : k[2] = id})
    /\ last_op.arg = 0 => last_op.out = <<>>

\* a load with a limit above the number of succ: keys, over a store that
\* holds evt: and fwd: keys of ids that have no succ: key in reach
C30_Witness ==
  /\ last_op.op = "load"
  /\ last_op.arg > Cardinality(succ)
  /\ Len(last_op.out) = 2
  /\ evt \ SuccIds # {}
  /\ fwd # {}



(* ------------------------------ C31 ------------------------------------ *)
\* the calls of fanout_for_event made by the step just taken
NewFanoutCalls == SubSeq(fanout_calls', Len(fanout_calls) + 1, Len(fanout_calls'))

\* C31: whatever fanout_for_event returns and whether or not the fanout
\* channel has a receiver, a receive or timer step sends every event of its
\* batch on the open downstream channel, in the order of the batch, calls
\* fanout_for_event for every event of the batch when fanout is configured,
\* and leaves process_stream running.
C31_FanoutFailureIsolated ==
  [][(last_op'.op \in {"recv", "timeout"} /\ rx_open.downstream) =>
       /\ downstream' = downstream \o last_batch'
       /\ pc' = "run"
       /\ cfg.fanout =>
            /\ Len(NewFanoutCalls) = Len(last_batch')
            /\ \A i \in 1..Len(last_batch') :
                 NewFanoutCalls[i].id = last_batch'[i]]_vars

\* a batch of two events was emitted: fanout_for_event failed for the first
\* one, whose bot has subscribers, both events are on the downstream
\* channel, fanout_for_event was called for the second one, and the router
\* runs
C31_Witness ==
  /\ pc = "run"
  /\ cfg.fanout
  /\ rx_open.downstream
  /\ Len(last_batch) = 2
  /\ LastN(downstream, 2) = last_batch
  /\ ListSubscriptions(SubscriptionRows, PubkeyOf(last_batch[1])) # <<>>
  /\ Len(fanout_calls) >= 2
  /\ LET a == fanout_calls[Len(fanout_calls) - 1]
         b == fanout_calls[Len(fanout_calls)]
     IN /\ a.id = last_batch[1]
        /\ ~a.ok
        /\ b.id = last_batch[2]
        /\ b.at = Len(downstream) - 1



(* ------------------------------ C32 ------------------------------------ *)
\* C32: handling an event, whatever the endpoints and mark_forward_success
\* answered, leaves the forwarder in its loop, and forward_events has
\* returned only when every sender of the downstream channel was dropped and
\* every event sent on it was taken.
C32_ForwarderNeverStopsOnFault ==
  /\ [](fw_pc = "done" => (DownstreamClosed /\ fwd_pos = Len(downstream)))
  /\ [][last_fwd'.id # BadId => fw_pc' = "run"]_vars

\* forward_events has returned after the channel was closed, having taken
\* two events or more: the forward of the first one failed, and a later one
\* was marked
C32_Witness ==
  /\ fw_pc = "done"
  /\ Len(downstream) >= 2
  /\ fwd_pos = Len(downstream)
  /\ downstream[1] \notin fwd
  /\ \E i \in 2..Len(downstream) : downstream[i] \in fwd



(* ------------------------------ C33 ------------------------------------ *)
\* C33: once every event sent on the downstream channel has been taken,
\* every connected /ws client has been written every event that was sent
\* since it connected.
C33_EveryClientGetsEveryEvent ==
  fwd_pos = Len(downstream) =>
    \A c \in ws_conn :
      \A i \in (ws_from[c] + 1)..Len(downstream) :
        downstream[i] \in Range(ws_got[c])



(* ------------------------------ C34 ------------------------------------ *)
\* C34: the connection map of the relay pool never holds more than
\* max_connections entries.
C34_ConnectionsCapped == Cardinality(connections) <= cfg.max_connections



(* ------------------------------ C35 ------------------------------------ *)
\* C35: with batch_size >= 1 the pending buffer holds fewer than batch_size
\* events after every step of the router, and a receive or timer step that
\* calls flush_batch on a buffer that is not empty leaves the buffer empty.
C35_BufferBelowBatchSize ==
  /\ [](cfg.batch_size >= 1 => Len(pending) < cfg.batch_size)
  /\ [][(cfg.batch_size >= 1 /\ last_op'.op \in {"recv", "timeout"}) =>
          /\ last_batch' # <<>> => pending' = <<>>
          /\ (last_op'.op = "timeout"
              /\ TimerFlushDue(pending, now - last_flush)) =>
               (pending' = <<>> /\ last_batch' # <<>>)]_vars

\* the timer has flushed a buffer of two events, fewer than batch_size, and
\* the buffer is empty
C35_Witness ==
  /\ last_op.op = "timeout"
  /\ cfg.batch_size > Len(last_batch)
  /\ Len(last_batch) = 2
  /\ pending = <<>>
  /\ pc = "run"



(* ------------------------------ C36 ------------------------------------ *)
\* C36: while the downstream channel has a receiver, every event that
\* is_duplicate returned false for is in the pending buffer or has been sent
\* on the downstream channel exactly once, and every event sent on the
\* channel is one is_duplicate returned false for.
C36_NoLossNoDuplication ==
  rx_open.downstream =>
    \A id \in EventIds :
      /\ accepted[id] > 0 =>
           (id \in Range(pending) \/ Count(downstream, id) = 1)
      /\ Count(downstream, id) <= 1
      /\ Count(downstream, id) > 0 => accepted[id] > 0



(* ------------------------------ C37 ------------------------------------ *)
\* C37: with batch_size = 0, while process_stream runs nothing has been sent
\* on either channel, fanout_for_event has not been called and the pending
\* buffer holds every event is_duplicate returned false for, so that it
\* grows by one with each of them; when the ingest stream closes, flush_all
\* sends them all on the open downstream channel.
C37_ZeroBatchSizeNeverFlushes ==
  /\ []((cfg.batch_size = 0 /\ pc = "run") =>
          /\ downstream = <<>>
          /\ fanout = <<>>
          /\ fanout_calls = <<>>
          /\ \A id \in EventIds : Count(pending, id) = accepted[id])
  /\ [][(cfg.batch_size = 0 /\ pc = "run" /\ pc' # "run"
         /\ rx_open.downstream) =>
          /\ SameEvents(downstream', pending)
          /\ pending' = <<>>]_vars

\* with batch_size = 0 the timer branch has called flush_batch on a buffer
\* of two events, max_latency after the last of them arrived, and both are
\* still pending
C37_Witness ==
  /\ cfg.batch_size = 0
  /\ last_op.op = "timeout"
  /\ last_flush = now
  /\ Len(pending) = 2
  /\ downstream = <<>>
  /\ pc = "run"



(* ------------------------------ C38 ------------------------------------ *)
\* C38: of two calls of is_duplicate for the same event id, made by two
\* tasks on an engine that has not seen the id, at most one has returned
\* false.
C38_OneCallerWins ==
  \A t, u \in DedupTasks :
    (/\ t # u
     /\ dd_tasks[t].pc = "done"
     /\ dd_tasks[u].pc = "done"
     /\ dd_tasks[t].id = dd_tasks[u].id)
      => (dd_tasks[t].ret \/ dd_tasks[u].ret)



(* ------------------------------ C39 ------------------------------------ *)
\* the run has no forwarder, in the claim's words: /ws is enabled, or no
\* TCP and no HTTP endpoint is configured
NoForwarderRun == cfg.websocket_enabled \/ (cfg.tcp = 0 /\ cfg.rest = 0)

\* C39: the fwd: and succ: keys change only in a step of the forwarder
\* that calls mark_forward_success; in a process with /ws enabled or with
\* no endpoint configured they never change, and the warm-up of the next
\* process over the same store loads exactly what the warm-up of this one
\* loaded, nothing about the events this run emitted.
C39_OnlyForwarderMarks ==
  /\ [][(fwd' # fwd \/ succ' # succ)
          => (fw_pc = "run" /\ last_fwd'.mark_called)]_vars
  /\ [][NoForwarderRun => (fwd' = fwd /\ succ' = succ)]_vars
  /\ [][(NoForwarderRun /\ run' = run + 1) => warmed' = warmed]_vars

\* a process without forwarder stored, and with batch_size 1 emitted, an
\* event other than the one the store held; the next process over that
\* store has just started and its warm-up loaded event 1 alone
C39_Witness ==
  /\ NoForwarderRun
  /\ cfg.batch_size = 1
  /\ run = 2
  /\ seen = {}
  /\ downstream = <<>>
  /\ warmed = {1}
  /\ evt \ {1} # {}
  /\ fwd = {1}

====
